---- MODULE Spec2Model ----
(***************************************************************************)
(* A model of the vrs_anvil translation pipeline:                          *)
(*   vrs_anvil/translator.py  WorkerThread, inline_translator,             *)
(*                            threaded_translator                          *)
(*   vrs_anvil/annotator.py   _vcf_generator, annotate_all                 *)
(*   vrs_anvil/__init__.py    CachingAlleleTranslator                      *)
(* Threads are modelled as processes with a program counter; one action is *)
(* one step between two points at which another thread can observe or      *)
(* change shared state (the two queues, the busy flags, the metrics dict,  *)
(* the disk cache).                                                        *)
(***************************************************************************)
EXTENDS Naturals, Sequences, FiniteSets, TLC

VARIABLES
    mode,           \* which entry point runs: "threaded", "inline", "cache"
    input,          \* the finite sequence of expressions the generator yields
    num_threads,    \* num_worker_threads / manifest.num_threads
    max_errors,     \* annotate_all's max_errors
    cache_enabled,  \* manifest.cache_enabled
    rd_pc,          \* reader thread (or the inline generator) position
    rd_pos,         \* number of items pulled from the generator
    rd_item,        \* the item the reader holds while blocked on put
    task_queue,     \* queue.PriorityQueue(maxsize=2*W), all priorities 1
    result_queue,   \* queue.PriorityQueue(maxsize=2*W), all priorities 1
    w_pc,           \* per worker: position in WorkerThread.run
    busy,           \* per worker: WorkerThread.busy
    w_item,         \* per worker: the local variable item / result
    mon_pc,         \* main thread: threaded_translator loop + annotate_all
    c,              \* threaded_translator's counter of results yielded
    scan_i,         \* index of the worker all(...) looks at next
    logged_already, \* threaded_translator's logged_already
    yield_count,    \* per line number: how often an item of it was yielded
    current,        \* annotate_all's loop variable result
    total_errors,   \* annotate_all's total_errors
    metrics,        \* the module-global metrics dict of annotator.py
    metrics_file,   \* the yaml file annotate_all writes
    cache,          \* the diskcache store "allele_translator"
    svc_calls,      \* per cache key: calls of AlleleTranslator.translate_from
    call_log,       \* the translate_from calls made directly on a translator
    corpus,         \* the *.json documents in manifest.metakb_directory
    kb_cache_dir,   \* (metakb_path / "cache").is_dir()
    kb_store,       \* the diskcache store "metakb": key -> value
    kb_store_dir,   \* the directory cache_directory("metakb") exists
    kb_misses,      \* the store's persisted miss counter
    kb_pc,          \* "none", or "built" while a MetaKBProxy exists
    kb_last,        \* the last MetaKBProxy.get call: id, value, miss
    work_dir,       \* manifest.work_directory: file name -> content
    state_dir,      \* manifest.state_directory: the names of its files
    procs,          \* the processes started so far: pid -> state
    now,            \* the wall clock, in seconds
    report,         \* the last command: its arguments and what it printed
    exit_code,      \* the exit code of the last command
    manifest_vcf_files, \* manifest.vcf_files as collect_manifest_urls reads it
    futures,        \* collect_manifest_urls' futures: handler, state, result
    collected,      \* the paths collect_manifest_urls has yielded, in order
    col_pc,         \* collect_manifest_urls: "none", "submit", "collect", ...
    tr_call,        \* per translator: the translate_from call it is in
    vcf_lines,      \* the lines of the file _vcf_generator reads
    compute_for_ref, \* manifest.compute_for_ref
    limit,          \* manifest.limit, 0 for None
    vcf_line_number, \* _vcf_generator's line_number
    vcf_yielded,    \* the (var, line_number) pairs _vcf_generator has yielded
    vcf_pc,         \* _vcf_generator: "none", "lines", "break", "done"
    results         \* the dicts threaded_translate_from has yielded

\* the variables of the translation pipeline
pipeline_vars == <<mode, input, num_threads, max_errors, cache_enabled, rd_pc,
                   rd_pos, rd_item, task_queue, result_queue, w_pc, busy,
                   w_item, mon_pc, c, scan_i, logged_already, yield_count,
                   current, total_errors, metrics, metrics_file, cache,
                   svc_calls, call_log>>

\* the variables of the knowledge-base membership cache
kb_vars == <<corpus, kb_cache_dir, kb_store, kb_store_dir, kb_misses, kb_pc,
             kb_last>>

\* the variables of the command line: file system, processes, output
cli_vars == <<work_dir, state_dir, procs, now, report, exit_code>>

\* the variables of collect_manifest_urls
col_vars == <<manifest_vcf_files, futures, collected, col_pc>>

\* the variables of the entry points that are called on their own
\* the variables of _vcf_generator reading one file
vcf_vars == <<vcf_lines, compute_for_ref, limit, vcf_line_number, vcf_yielded,
              vcf_pc>>

entry_vars == <<col_vars, tr_call, vcf_vars, results>>

vars == <<pipeline_vars, kb_vars, cli_vars, entry_vars>>

-----------------------------------------------------------------------------
(* Bounds of the model *)

MaxItems == 3
MaxWorkers == 2
MaxCalls == 3
MaxLongItems == 7

-----------------------------------------------------------------------------
(* Values *)

None == "None"

GoodExprs == {"1-100-A-G", "1-200-C-T"}
BadExprs == {"1-300-N-N"}
Exprs == GoodExprs \cup BadExprs
PipelineExprs == {"1-100-A-G", "1-300-N-N"}
LongExprs == {"1-100-A-G"}

\* values of --max_errors
Budgets == {0, 1}

FileName == "f1.vcf"

\* annotator.py's metric keys
TOTAL == "total"
STATUS == "status"
SUCCESSES == "successes"
ERROR == "error"
METAKB_HITS == "metakb_hits"
EVIDENCE == "evidence"
START_TIME == "start_time"
END_TIME == "end_time"
ELAPSED_TIME == "elapsed_time"
LINE_COUNT == "line_count"

VCFItem(fmt, var, file_name, line_number, identifier, result) ==
    [fmt |-> fmt, var |-> var, file_name |-> file_name,
     line_number |-> line_number, identifier |-> identifier, result |-> result]

NoItem == VCFItem(None, None, None, 0, None, None)

\* a copy that leaves the result empty
CompletedWithoutResult(item, allele) == item

\* a copy that forgets where the item came from
CompletedWithoutProvenance(item, allele) ==
    VCFItem(item.fmt, item.var, None, 0, item.identifier, allele)

\* translator.py lines 34-36 and 94-96: _ = item._asdict(); _["result"] =
\* allele; VCFItem(**_): a new tuple with the fields of the item and the
\* result
Completed(item, allele) ==
    VCFItem(item.fmt, item.var, item.file_name, item.line_number,
            item.identifier, allele)

Workers == 1..num_threads

\* a capacity that is one slot too large
QueueCapacityOffByOne == num_threads * 2 + 1

\* translator.py lines 105-106: maxsize of both queues
QueueCapacity == num_threads * 2

-----------------------------------------------------------------------------
(* The external translation service and the caching translator *)

\* AlleleTranslator.translate_from of ga4gh.vrs: deterministic; raises on an
\* expression it rejects.
ServiceRaises(var, fmt) == ~(fmt \in {"gnomad", None} /\ var \in GoodExprs)

\* a service whose value depends on the calls made before
ServiceValueByCall(var, fmt) ==
    "ga4gh:VA." \o var \o "/" \o ToString(Cardinality(DOMAIN svc_calls))

ServiceValue(var, fmt) == "ga4gh:VA." \o var

CacheKey(var, fmt) == var \o "-" \o fmt

\* a store directory of its own for every translator
CacheDirectoryPerTranslator(t) == "allele_translator_" \o ToString(t)

\* CachingAlleleTranslator.__init__ lines 54-55: the directory of the store
\* that translator t opens, cache_directory("allele_translator"). Translator
\* w is the instance WorkerThread.__init__ makes for worker w; translator 1
\* is also the one instance inline_translator makes.
CacheDirectory(t) == "allele_translator"

\* the content of the store translator t has opened
Store(t) ==
    IF CacheDirectory(t) \in DOMAIN cache THEN cache[CacheDirectory(t)]
    ELSE <<>>

CacheLookup(t, var, fmt) ==
    cache_enabled /\ CacheKey(var, fmt) \in DOMAIN Store(t)

\* CachingAlleleTranslator.translate_from: does the call raise, what does it
\* return, and what are the cache and the service-call counts afterwards.
TranslateRaises(t, var, fmt) ==
    ~CacheLookup(t, var, fmt) /\ ServiceRaises(var, fmt)

TranslateValue(t, var, fmt) ==
    IF CacheLookup(t, var, fmt) THEN Store(t)[CacheKey(var, fmt)]
    ELSE ServiceValue(var, fmt)

\* a translator that never writes its cache
CacheAfterNoWrite(t, var, fmt) == cache

\* a translator that also stores an entry when the service raises
CacheAfterAlsoFailures(t, var, fmt) ==
    IF cache_enabled /\ ~CacheLookup(t, var, fmt)
    THEN (CacheDirectory(t) :>
             ((CacheKey(var, fmt) :>
                  (IF ServiceRaises(var, fmt) THEN None
                   ELSE ServiceValue(var, fmt))) @@ Store(t)))
         @@ cache
    ELSE cache

CacheAfter(t, var, fmt) ==
    IF cache_enabled /\ ~CacheLookup(t, var, fmt) /\ ~ServiceRaises(var, fmt)
    THEN (CacheDirectory(t) :>
             ((CacheKey(var, fmt) :> ServiceValue(var, fmt)) @@ Store(t)))
         @@ cache
    ELSE cache

CallsAfter(t, var, fmt) ==
    IF CacheLookup(t, var, fmt) THEN svc_calls
    ELSE LET k == CacheKey(var, fmt)
         IN (k :> (IF k \in DOMAIN svc_calls THEN svc_calls[k] + 1 ELSE 1))
                @@ svc_calls

-----------------------------------------------------------------------------
(* The metrics dict: a recursive defaultdict, keys appear on first access *)

Put(d, k, v) == (k :> v) @@ d

Get(d, k, default) == IF k \in DOMAIN d THEN d[k] ELSE default

EmptyDict == <<>>

\* MetaKBProxy.get: membership of the identifier in the corpus index
MetaKBIds == {"ga4gh:VA.1-100-A-G"}

MetaKBGet(vrs_id) == vrs_id \in MetaKBIds

\* _vcf_generator lines 66-70
MetricsOpened(m, key) ==
    Put(m, key,
        Put(Put(Put(Put(Get(m, key, EmptyDict), STATUS, "started"),
                    START_TIME, "t"), SUCCESSES, 0), METAKB_HITS, 0))

\* _vcf_generator lines 88-93
MetricsFinished(m, key, line_number) ==
    Put(m, key,
        Put(Put(Put(Put(Get(m, key, EmptyDict), STATUS, "finished"),
                    END_TIME, "t"), LINE_COUNT, line_number), ELAPSED_TIME, "t"))

\* a loop body that counts a hit for every success, without asking the proxy
MetricsSuccessAlwaysHit(m, result) ==
    LET key == result.file_name
        rec == Get(m, key, EmptyDict)
    IN Put(m, key,
           Put(Put(rec, SUCCESSES, rec[SUCCESSES] + 1),
               METAKB_HITS, rec[METAKB_HITS] + 1))

\* annotate_all lines 153-169
MetricsSuccess(m, result) ==
    LET key == result.file_name
        rec == Get(m, key, EmptyDict)
        rec1 == Put(rec, SUCCESSES, rec[SUCCESSES] + 1)
        rec2 == IF MetaKBGet(result.result)
                THEN Put(Put(rec1, EVIDENCE,
                             Put(Get(rec1, EVIDENCE, EmptyDict), result.result,
                                 [fmt |-> result.fmt, var |-> result.var])),
                         METAKB_HITS, rec1[METAKB_HITS] + 1)
                ELSE rec1
    IN Put(m, key, rec2)

\* the tuple membership test `ERROR in result` of annotate_all line 144
ErrorInResult(result) ==
    ERROR \in {result.fmt, result.var, result.file_name, result.identifier,
               result.result}

RECURSIVE SumOver(_, _)
SumOver(f, S) ==
    IF S = {} THEN 0
    ELSE LET x == CHOOSE y \in S : TRUE IN f[x] + SumOver(f, S \ {x})

\* annotate_all lines 173-180: the total record
MetricsTotal(m) ==
    LET files == DOMAIN m \ {TOTAL}
        succ == [k \in files |-> Get(m[k], SUCCESSES, 0)]
        errs == [k \in files |->
                    LET h == Get(m[k], "errors", EmptyDict)
                    IN SumOver(h, DOMAIN h)]
        withErrors == [k \in DOMAIN m |->
                         IF k = TOTAL THEN m[k]
                         ELSE Put(m[k], "errors", Get(m[k], "errors", EmptyDict))]
    IN Put(withErrors, TOTAL,
           Put(Put(Put(Put(Get(m, TOTAL, EmptyDict), END_TIME, "t"),
                       ELAPSED_TIME, "t"),
                   SUCCESSES, SumOver(succ, files)),
               "errors", SumOver(errs, files)))

\* annotate_all line 136
MetricsStarted(m) == Put(m, TOTAL, Put(Get(m, TOTAL, EmptyDict), START_TIME, "t"))

NoFile == [written |-> FALSE]

-----------------------------------------------------------------------------
(* The threaded pipeline: threaded_translator driven by annotate_all *)

\* _vcf_generator line 81: the item made from the i-th expression
InputItem(i) == VCFItem("gnomad", input[i], FileName, i, None, None)

\* no MetaKBProxy.get call has been made
NoGet == [id |-> None, value |-> FALSE, miss |-> FALSE]

\* no MetaKBProxy call is made outside annotate_all, whose proxy is MetaKBGet
KbIdle ==
    /\ corpus = {}
    /\ kb_cache_dir = FALSE
    /\ kb_store = EmptyDict
    /\ kb_store_dir = FALSE
    /\ kb_misses = 0
    /\ kb_pc = "none"
    /\ kb_last = NoGet

\* no command of cli.py has run: empty directories, no child process
CliIdle ==
    /\ work_dir = EmptyDict
    /\ state_dir = {}
    /\ procs = EmptyDict
    /\ now = 0
    /\ report = [cmd |-> "none"]
    /\ exit_code = 0

\* collect_manifest_urls is not running
ColIdle ==
    /\ manifest_vcf_files = <<>>
    /\ futures = <<>>
    /\ collected = <<>>
    /\ col_pc = "none"

\* _vcf_generator is not observed line by line
VcfIdle ==
    /\ vcf_lines = <<>>
    /\ compute_for_ref = FALSE
    /\ limit = 0
    /\ vcf_line_number = 0
    /\ vcf_yielded = <<>>
    /\ vcf_pc = "none"

\* no function is called on its own
EntryIdle ==
    /\ ColIdle
    /\ VcfIdle
    /\ tr_call = <<>>
    /\ results = <<>>

\* threaded_translator lines 105-106 and 126-127, annotate_all line 135, a
\* cache directory that is new
InitPipeline ==
    /\ rd_pos = 0
    /\ rd_item = NoItem
    /\ task_queue = {}
    /\ result_queue = {}
    /\ c = 0
    /\ scan_i = 0
    /\ logged_already = {}
    /\ yield_count = [i \in 1..Len(input) |-> 0]
    /\ current = NoItem
    /\ total_errors = 0
    /\ metrics_file = NoFile
    /\ cache = EmptyDict
    /\ svc_calls = EmptyDict
    /\ call_log = <<>>

InitCommon ==
    /\ KbIdle
    /\ CliIdle
    /\ EntryIdle
    /\ InitPipeline

\* no pipeline runs: the state of a process that only builds a MetaKBProxy
\* or only runs a command of cli.py
PipelineIdle(m) ==
    /\ mode = m
    /\ input = <<>>
    /\ num_threads = 1
    /\ max_errors = 0
    /\ cache_enabled = TRUE
    /\ rd_pc = "none"
    /\ w_pc = <<>>
    /\ busy = <<>>
    /\ w_item = <<>>
    /\ mon_pc = "none"
    /\ metrics = EmptyDict
    /\ InitPipeline

\* annotate_all with manifest.num_threads > 1, where Translator.translate_from
\* (lines 81-82) takes the threaded path. threaded_translator lines 105-123
\* have run: queues made, workers and reader started; annotate_all is at
\* its for loop (line 138).
InitThreaded ==
    /\ mode = "threaded"
    /\ input \in UNION {[1..n -> PipelineExprs] : n \in 0..MaxItems}
    /\ num_threads \in 2..MaxWorkers
    /\ max_errors \in Budgets
    /\ cache_enabled = TRUE
    /\ rd_pc = "next"
    /\ w_pc = [w \in 1..num_threads |-> "get"]
    /\ busy = [w \in 1..num_threads |-> FALSE]
    /\ w_item = [w \in 1..num_threads |-> NoItem]
    /\ mon_pc = "get"
    /\ metrics = MetricsStarted(EmptyDict)
    /\ InitCommon

\* reader_thread, one next() of the generator (translator.py line 119,
\* annotator.py lines 60-93): the first call opens the file, a call at the
\* end of the input closes the file's record and ends the thread.
ReaderNext ==
    /\ mode = "threaded"
    /\ rd_pc = "next"
    /\ LET opened == IF rd_pos = 0 THEN MetricsOpened(metrics, FileName)
                     ELSE metrics
       IN IF rd_pos < Len(input)
          THEN /\ rd_pos' = rd_pos + 1
               /\ rd_item' = InputItem(rd_pos + 1)
               /\ rd_pc' = "put"
               /\ metrics' = opened
          ELSE /\ rd_pc' = "done"
               /\ metrics' = MetricsFinished(opened, FileName, rd_pos)
               /\ UNCHANGED <<rd_pos, rd_item>>
    /\ UNCHANGED <<mode, input, num_threads, max_errors, cache_enabled,
                   task_queue, result_queue, w_pc, busy, w_item, mon_pc, c,
                   scan_i, logged_already, yield_count, current, total_errors,
                   metrics_file, cache, svc_calls, call_log, kb_vars, cli_vars,
                   entry_vars>>

\* reader_thread line 120: task_queue.put blocks while the queue is full
ReaderPut ==
    /\ mode = "threaded"
    /\ rd_pc = "put"
    /\ Cardinality(task_queue) < QueueCapacity
    /\ task_queue' = task_queue \cup {rd_item}
    /\ rd_item' = NoItem
    /\ rd_pc' = "next"
    /\ UNCHANGED <<mode, input, num_threads, max_errors, cache_enabled, rd_pos,
                   result_queue, w_pc, busy, w_item, mon_pc, c, scan_i,
                   logged_already, yield_count, current, total_errors, metrics,
                   metrics_file, cache, svc_calls, call_log, kb_vars, cli_vars,
                   entry_vars>>

\* WorkerThread.run lines 27-30: task_queue.get blocks while the queue is
\* empty. All priorities are equal and the payload is not compared, so the
\* heap may hand out any queued item. No None item is ever queued.
WorkerGet(w) ==
    /\ mode = "threaded"
    /\ w_pc[w] = "get"
    /\ \E item \in task_queue :
          /\ task_queue' = task_queue \ {item}
          /\ w_item' = [w_item EXCEPT ![w] = item]
          /\ w_pc' = [w_pc EXCEPT ![w] = IF item = NoItem THEN "exited"
                                         ELSE "got"]
    /\ UNCHANGED <<mode, input, num_threads, max_errors, cache_enabled, rd_pc,
                   rd_pos, rd_item, result_queue, busy, mon_pc, c, scan_i,
                   logged_already, yield_count, current, total_errors, metrics,
                   metrics_file, cache, svc_calls, call_log, kb_vars, cli_vars,
                   entry_vars>>

\* WorkerThread.run line 32
WorkerSetBusy(w) ==
    /\ mode = "threaded"
    /\ w_pc[w] = "got"
    /\ busy' = [busy EXCEPT ![w] = TRUE]
    /\ w_pc' = [w_pc EXCEPT ![w] = "translate"]
    /\ UNCHANGED <<mode, input, num_threads, max_errors, cache_enabled, rd_pc,
                   rd_pos, rd_item, task_queue, result_queue, w_item, mon_pc,
                   c, scan_i, logged_already, yield_count, current,
                   total_errors, metrics, metrics_file, cache, svc_calls,
                   call_log, kb_vars, cli_vars,
                   entry_vars>>

\* What the worker does with an exception of the translation (lines 42-45):
\* log, clear busy, leave the loop. The item it holds is dropped.
WorkerOnException(w) ==
    /\ busy' = [busy EXCEPT ![w] = FALSE]
    /\ w_pc' = [w_pc EXCEPT ![w] = "exited"]
    /\ w_item' = [w_item EXCEPT ![w] = NoItem]

\* WorkerThread.run lines 33-36 on success: a new VCFItem with the result
WorkerOnResult(w) ==
    /\ w_item' = [w_item EXCEPT ![w] =
                     Completed(@, TranslateValue(w, @.var, @.fmt))]
    /\ w_pc' = [w_pc EXCEPT ![w] = "put"]
    /\ UNCHANGED busy

\* WorkerThread.run lines 33-36 and 42-45
WorkerTranslate(w) ==
    /\ mode = "threaded"
    /\ w_pc[w] = "translate"
    /\ IF TranslateRaises(w, w_item[w].var, w_item[w].fmt)
       THEN WorkerOnException(w)
       ELSE WorkerOnResult(w)
    /\ cache' = CacheAfter(w, w_item[w].var, w_item[w].fmt)
    /\ svc_calls' = CallsAfter(w, w_item[w].var, w_item[w].fmt)
    /\ UNCHANGED <<mode, input, num_threads, max_errors, cache_enabled, rd_pc,
                   rd_pos, rd_item, task_queue, result_queue, mon_pc, c,
                   scan_i, logged_already, yield_count, current, total_errors,
                   metrics, metrics_file, call_log, kb_vars, cli_vars,
                   entry_vars>>

\* WorkerThread.run line 37: result_queue.put blocks while the queue is full
WorkerPut(w) ==
    /\ mode = "threaded"
    /\ w_pc[w] = "put"
    /\ Cardinality(result_queue) < QueueCapacity
    /\ result_queue' = result_queue \cup {w_item[w]}
    /\ w_item' = [w_item EXCEPT ![w] = NoItem]
    /\ w_pc' = [w_pc EXCEPT ![w] = "clear"]
    /\ UNCHANGED <<mode, input, num_threads, max_errors, cache_enabled, rd_pc,
                   rd_pos, rd_item, task_queue, busy, mon_pc, c, scan_i,
                   logged_already, yield_count, current, total_errors, metrics,
                   metrics_file, cache, svc_calls, call_log, kb_vars, cli_vars,
                   entry_vars>>

\* WorkerThread.run lines 39-40
WorkerClear(w) ==
    /\ mode = "threaded"
    /\ w_pc[w] = "clear"
    /\ busy' = [busy EXCEPT ![w] = FALSE]
    /\ w_pc' = [w_pc EXCEPT ![w] = "get"]
    /\ UNCHANGED <<mode, input, num_threads, max_errors, cache_enabled, rd_pc,
                   rd_pos, rd_item, task_queue, result_queue, w_item, mon_pc,
                   c, scan_i, logged_already, yield_count, current,
                   total_errors, metrics, metrics_file, cache, svc_calls,
                   call_log, kb_vars, cli_vars,
                   entry_vars>>

\* threaded_translator lines 130-134: a result is there; count it and
\* yield it to annotate_all's loop body.
MonitorGet ==
    /\ mode = "threaded"
    /\ mon_pc = "get"
    /\ \E item \in result_queue :
          /\ result_queue' = result_queue \ {item}
          /\ current' = item
          /\ yield_count' = [yield_count EXCEPT ![item.line_number] = @ + 1]
    /\ c' = c + 1
    /\ mon_pc' = "consume"
    /\ UNCHANGED <<mode, input, num_threads, max_errors, cache_enabled, rd_pc,
                   rd_pos, rd_item, task_queue, w_pc, busy, w_item, scan_i,
                   logged_already, total_errors, metrics, metrics_file, cache,
                   svc_calls, call_log, kb_vars, cli_vars,
                   entry_vars>>

\* a start test that also passes before any result was seen
ReaderStartedAlways == c >= 0

\* a start test that also passes once the reader thread has ended
ReaderStartedOrEnded == c > 0 \/ rd_pc = "done"

\* threaded_translator line 137
ReaderStarted == c > 0

MsgReader == "queue.Empty - Waiting for reader to start"
MsgWorkers == "queue.Empty - Waiting for worker threads to finish"

\* threaded_translator lines 136-150: result_queue.get timed out with the
\* queue empty. If the reader has not started the loop logs and polls again,
\* else all(...) begins to read the busy flags, one worker after the other.
MonitorTimeout ==
    /\ mode = "threaded"
    /\ mon_pc = "get"
    /\ result_queue = {}
    /\ IF ReaderStarted
       THEN /\ mon_pc' = "scan"
            /\ scan_i' = 1
            /\ UNCHANGED logged_already
       ELSE /\ logged_already' = logged_already \cup {MsgReader}
            /\ UNCHANGED <<mon_pc, scan_i>>
    /\ UNCHANGED <<mode, input, num_threads, max_errors, cache_enabled, rd_pc,
                   rd_pos, rd_item, task_queue, result_queue, w_pc, busy,
                   w_item, c, yield_count, current, total_errors, metrics,
                   metrics_file, cache, svc_calls, call_log, kb_vars, cli_vars,
                   entry_vars>>

\* threaded_translator lines 138-150: all(not worker_thread.busy ...) reads
\* one flag. A busy worker ends all() with False: log and poll again. After
\* the last idle worker the loop breaks, the generator ends and annotate_all
\* leaves its for loop.
MonitorScan ==
    /\ mode = "threaded"
    /\ mon_pc = "scan"
    /\ IF busy[scan_i]
       THEN /\ mon_pc' = "get"
            /\ scan_i' = 0
            /\ logged_already' = logged_already \cup {MsgWorkers}
       ELSE /\ IF scan_i = num_threads
               THEN mon_pc' = "metrics" /\ scan_i' = 0
               ELSE mon_pc' = "scan" /\ scan_i' = scan_i + 1
            /\ UNCHANGED logged_already
    /\ UNCHANGED <<mode, input, num_threads, max_errors, cache_enabled, rd_pc,
                   rd_pos, rd_item, task_queue, result_queue, w_pc, busy,
                   w_item, c, yield_count, current, total_errors, metrics,
                   metrics_file, cache, svc_calls, call_log, kb_vars, cli_vars,
                   entry_vars>>

\* annotate_all lines 139-169, the loop body on one result. A VCFItem is a
\* tuple: `ERROR in result` compares "error" with its field values, and
\* result[ERROR] (line 146) raises TypeError after line 145 has created the
\* file's "error" entry. Otherwise the result counts as a success.
Consume ==
    /\ mon_pc = "consume"
    /\ IF ErrorInResult(current)
       THEN /\ metrics' = Put(metrics, current.file_name,
                              Put(Get(metrics, current.file_name, EmptyDict),
                                  ERROR, EmptyDict))
            /\ mon_pc' = "raised"
       ELSE /\ metrics' = MetricsSuccess(metrics, current)
            /\ mon_pc' = IF mode = "threaded" THEN "get" ELSE "next"
    /\ UNCHANGED <<mode, input, num_threads, max_errors, cache_enabled, rd_pc,
                   rd_pos, rd_item, task_queue, result_queue, w_pc, busy,
                   w_item, c, scan_i, logged_already, yield_count, current,
                   total_errors, metrics_file, cache, svc_calls, call_log,
                   kb_vars, cli_vars, entry_vars>>

\* annotate_all lines 171-205: totals, then the metrics file
WriteMetrics ==
    /\ mon_pc = "metrics"
    /\ metrics' = MetricsTotal(metrics)
    /\ metrics_file' = [written |-> TRUE, content |-> metrics']
    /\ mon_pc' = "returned"
    /\ UNCHANGED <<mode, input, num_threads, max_errors, cache_enabled, rd_pc,
                   rd_pos, rd_item, task_queue, result_queue, w_pc, busy,
                   w_item, c, scan_i, logged_already, yield_count, current,
                   total_errors, cache, svc_calls, call_log, kb_vars, cli_vars,
                   entry_vars>>

NextThreaded ==
    \/ ReaderNext
    \/ ReaderPut
    \/ \E w \in Workers : WorkerGet(w)
    \/ \E w \in Workers : WorkerSetBusy(w)
    \/ \E w \in Workers : WorkerTranslate(w)
    \/ \E w \in Workers : WorkerPut(w)
    \/ \E w \in Workers : WorkerClear(w)
    \/ MonitorGet
    \/ MonitorTimeout
    \/ MonitorScan
    \/ Consume
    \/ WriteMetrics

Spec == InitThreaded /\ [][NextThreaded]_vars

\* threaded_translator called with one worker (tests/unit/test_translator.py
\* calls it directly), on inputs longer than what the two queues, the worker
\* and the reader can hold together. The caller's loop body is annotate_all's.
InitBackpressure ==
    /\ mode = "threaded"
    /\ input \in UNION {[1..n -> LongExprs] : n \in 0..MaxLongItems}
    /\ num_threads = 1
    /\ max_errors = 0
    /\ cache_enabled = TRUE
    /\ rd_pc = "next"
    /\ w_pc = [w \in 1..num_threads |-> "get"]
    /\ busy = [w \in 1..num_threads |-> FALSE]
    /\ w_item = [w \in 1..num_threads |-> NoItem]
    /\ mon_pc = "get"
    /\ metrics = MetricsStarted(EmptyDict)
    /\ InitCommon

SpecBackpressure == InitBackpressure /\ [][NextThreaded]_vars

-----------------------------------------------------------------------------
(* The inline path: annotate_all over inline_translator (num_threads <= 1) *)

InitInline ==
    /\ mode = "inline"
    /\ input \in UNION {[1..n -> Exprs] : n \in 0..MaxItems}
    /\ num_threads = 1
    /\ max_errors \in Budgets
    /\ cache_enabled \in BOOLEAN
    /\ rd_pc = "inline"
    /\ w_pc = <<>>
    /\ busy = <<>>
    /\ w_item = <<>>
    /\ mon_pc = "next"
    /\ metrics = MetricsStarted(EmptyDict)
    /\ InitCommon

\* One turn of annotate_all's for loop up to the loop body: inline_translator
\* (lines 92-96) pulls the next item of _vcf_generator and translates it in
\* the calling thread. An exception of the translation is caught nowhere on
\* the way up: it leaves inline_translator, _vrs_generator and annotate_all.
InlineNext ==
    /\ mode = "inline"
    /\ mon_pc = "next"
    /\ LET opened == IF rd_pos = 0 THEN MetricsOpened(metrics, FileName)
                     ELSE metrics
           item == InputItem(rd_pos + 1)
       IN IF rd_pos = Len(input)
          THEN /\ metrics' = MetricsFinished(opened, FileName, rd_pos)
               /\ mon_pc' = "metrics"
               /\ UNCHANGED <<rd_pos, current, yield_count, cache, svc_calls>>
          ELSE /\ metrics' = opened
               /\ rd_pos' = rd_pos + 1
               /\ cache' = CacheAfter(1, item.var, item.fmt)
               /\ svc_calls' = CallsAfter(1, item.var, item.fmt)
               /\ IF TranslateRaises(1, item.var, item.fmt)
                  THEN /\ mon_pc' = "raised"
                       /\ UNCHANGED <<current, yield_count>>
                  ELSE /\ mon_pc' = "consume"
                       /\ current' = Completed(item,
                                               TranslateValue(1, item.var,
                                                              item.fmt))
                       /\ yield_count' = [yield_count EXCEPT
                                             ![item.line_number] = @ + 1]
    /\ UNCHANGED <<mode, input, num_threads, max_errors, cache_enabled, rd_pc,
                   rd_item, task_queue, result_queue, w_pc, busy, w_item, c,
                   scan_i, logged_already, total_errors, metrics_file,
                   call_log, kb_vars, cli_vars,
                   entry_vars>>

NextInline ==
    \/ InlineNext
    \/ Consume
    \/ WriteMetrics

SpecInline == InitInline /\ [][NextInline]_vars

-----------------------------------------------------------------------------
(* Translator.translate_from: the choice between the two paths *)

\* Translator.translate_from lines 81-84
TranslatorPath(n) == IF n > 1 THEN "threaded" ELSE "inline"

\* annotate_all over Translator.translate_from for any manifest.num_threads,
\* on inputs whose translations all succeed
InitTranslator ==
    /\ num_threads \in 0..MaxWorkers
    /\ mode = TranslatorPath(num_threads)
    /\ input \in UNION {[1..n -> GoodExprs] : n \in 0..MaxItems}
    /\ max_errors = 0
    /\ cache_enabled = TRUE
    /\ rd_pc = IF mode = "threaded" THEN "next" ELSE "inline"
    /\ w_pc = IF mode = "threaded" THEN [w \in 1..num_threads |-> "get"]
              ELSE <<>>
    /\ busy = IF mode = "threaded" THEN [w \in 1..num_threads |-> FALSE]
              ELSE <<>>
    /\ w_item = IF mode = "threaded" THEN [w \in 1..num_threads |-> NoItem]
                ELSE <<>>
    /\ mon_pc = IF mode = "threaded" THEN "get" ELSE "next"
    /\ metrics = MetricsStarted(EmptyDict)
    /\ InitCommon

NextTranslator ==
    \/ NextThreaded
    \/ NextInline

SpecTranslator == InitTranslator /\ [][NextTranslator]_vars

-----------------------------------------------------------------------------
(* Calls made directly on CachingAlleleTranslator instances *)

Fmts == {"gnomad", None}

\* the instances caching_allele_translator_factory has made
Translators == 1..MaxWorkers

InitCache ==
    /\ mode = "cache"
    /\ input = <<>>
    /\ num_threads = 1
    /\ max_errors = 0
    /\ cache_enabled \in BOOLEAN
    /\ rd_pc = "none"
    /\ w_pc = <<>>
    /\ busy = <<>>
    /\ w_item = <<>>
    /\ mon_pc = "none"
    /\ metrics = EmptyDict
    /\ InitCommon

\* CachingAlleleTranslator.translate_from(var, fmt), lines 61-74, called on
\* translator t
TranslateFrom(t, var, fmt) ==
    /\ mode = "cache"
    /\ Len(call_log) < MaxCalls
    /\ cache' = CacheAfter(t, var, fmt)
    /\ svc_calls' = CallsAfter(t, var, fmt)
    /\ call_log' = Append(call_log,
                          [translator |-> t, var |-> var, fmt |-> fmt,
                           raised |-> TranslateRaises(t, var, fmt),
                           val |-> IF TranslateRaises(t, var, fmt) THEN None
                                   ELSE TranslateValue(t, var, fmt),
                           service |-> svc_calls' # svc_calls])
    /\ UNCHANGED <<mode, input, num_threads, max_errors, cache_enabled, rd_pc,
                   rd_pos, rd_item, task_queue, result_queue, w_pc, busy,
                   w_item, mon_pc, c, scan_i, logged_already, yield_count,
                   current, total_errors, metrics, metrics_file, kb_vars,
                   cli_vars, entry_vars>>

NextCache ==
    \E t \in Translators, var \in Exprs, fmt \in Fmts : TranslateFrom(t, var, fmt)

SpecCache == InitCache /\ [][NextCache]_vars

-----------------------------------------------------------------------------
(* Concurrent calls of CachingAlleleTranslator.translate_from: the steps of *)
(* one call interleave with the calls of the other translators, in this     *)
(* process or in a sibling process that opens the same store                *)

NoCall == [pc |-> "idle"]

InitCacheRace ==
    /\ mode = "race"
    /\ input = <<>>
    /\ num_threads = 1
    /\ max_errors = 0
    /\ cache_enabled \in BOOLEAN
    /\ rd_pc = "none"
    /\ w_pc = <<>>
    /\ busy = <<>>
    /\ w_item = <<>>
    /\ mon_pc = "none"
    /\ metrics = EmptyDict
    /\ KbIdle
    /\ CliIdle
    /\ ColIdle
    /\ VcfIdle
    /\ results = <<>>
    /\ tr_call = [t \in Translators |-> NoCall]
    /\ InitPipeline

\* translate_from lines 64-67: the key is looked up; a hit returns the
\* stored value and the call is over
CallLookup(t, var, fmt) ==
    /\ mode = "race"
    /\ tr_call[t].pc = "idle"
    /\ Len(call_log) < MaxCalls
    /\ call_log' = Append(call_log, [translator |-> t, var |-> var,
                                     fmt |-> fmt,
                                     hit |-> CacheLookup(t, var, fmt)])
    /\ tr_call' = [tr_call EXCEPT ![t] =
                      IF CacheLookup(t, var, fmt) THEN NoCall
                      ELSE [pc |-> "missed", var |-> var, fmt |-> fmt]]
    /\ UNCHANGED <<mode, input, num_threads, max_errors, cache_enabled, rd_pc,
                   rd_pos, rd_item, task_queue, result_queue, w_pc, busy,
                   w_item, mon_pc, c, scan_i, logged_already, yield_count,
                   current, total_errors, metrics, metrics_file, cache,
                   svc_calls, kb_vars, cli_vars, col_vars, vcf_vars,
                   results>>

\* translate_from line 69: the service translates, or raises and ends the
\* call
CallService(t) ==
    /\ mode = "race"
    /\ tr_call[t].pc = "missed"
    /\ LET var == tr_call[t].var
           fmt == tr_call[t].fmt
           k == CacheKey(var, fmt)
       IN /\ svc_calls' = Put(svc_calls, k, Get(svc_calls, k, 0) + 1)
          /\ tr_call' = [tr_call EXCEPT ![t] =
                            IF ServiceRaises(var, fmt) THEN NoCall
                            ELSE [pc |-> "computed", var |-> var, fmt |-> fmt,
                                  val |-> ServiceValue(var, fmt)]]
    /\ UNCHANGED <<mode, input, num_threads, max_errors, cache_enabled, rd_pc,
                   rd_pos, rd_item, task_queue, result_queue, w_pc, busy,
                   w_item, mon_pc, c, scan_i, logged_already, yield_count,
                   current, total_errors, metrics, metrics_file, cache,
                   call_log, kb_vars, cli_vars, col_vars, vcf_vars,
                   results>>

\* translate_from lines 71-74: the value is stored under the key, whatever
\* the store holds by now, and returned
CallStore(t) ==
    /\ mode = "race"
    /\ tr_call[t].pc = "computed"
    /\ cache' = IF cache_enabled
                THEN Put(cache, CacheDirectory(t),
                         Put(Store(t),
                             CacheKey(tr_call[t].var, tr_call[t].fmt),
                             tr_call[t].val))
                ELSE cache
    /\ tr_call' = [tr_call EXCEPT ![t] = NoCall]
    /\ UNCHANGED <<mode, input, num_threads, max_errors, cache_enabled, rd_pc,
                   rd_pos, rd_item, task_queue, result_queue, w_pc, busy,
                   w_item, mon_pc, c, scan_i, logged_already, yield_count,
                   current, total_errors, metrics, metrics_file, svc_calls,
                   call_log, kb_vars, cli_vars, col_vars, vcf_vars,
                   results>>

NextCacheRace ==
    \/ \E t \in Translators, var \in Exprs, fmt \in Fmts :
          CallLookup(t, var, fmt)
    \/ \E t \in Translators : CallService(t)
    \/ \E t \in Translators : CallStore(t)

SpecCacheRace == InitCacheRace /\ [][NextCacheRace]_vars

\* the entries of the stores: directory, key, value
Entries(stores) ==
    UNION {{<<d, k, stores[d][k]>> : k \in DOMAIN stores[d]}
              : d \in DOMAIN stores}

-----------------------------------------------------------------------------
(* Properties of the threaded pipeline *)

AllSucceed == \A i \in 1..Len(input) : ~ServiceRaises(input[i], "gnomad")

\* the consuming loop of threaded_translator has ended by its own break
LoopEnded == mon_pc \in {"metrics", "returned"}

\* items the reader has put on the task queue so far
Dispatched == IF rd_pc = "put" THEN rd_pos - 1 ELSE rd_pos

HeldByWorkers == {w \in Workers : w_item[w] # NoItem}

\* C1: for a finite input of N items whose translations all succeed and any
\* worker count >= 1, iterating threaded_translator to completion yields
\* every item exactly once.
C1_ExactlyNYielded ==
    (mode = "threaded" /\ AllSucceed /\ LoopEnded)
        => \A i \in 1..Len(input) : yield_count[i] = 1

\* C2: at the moment the consuming loop decides that the pipeline is
\* exhausted, the task queue is empty, no worker holds a dequeued item, the
\* result queue is empty and the reader has consumed its whole input.
C2_ExhaustedMeansNothingInFlight ==
    (mode = "threaded" /\ mon_pc = "metrics")
        => /\ task_queue = {}
           /\ HeldByWorkers = {}
           /\ result_queue = {}
           /\ rd_pos = Len(input)
           /\ rd_item = NoItem

\* C3: a worker whose translation call has returned or raised goes on to
\* emit a completed item for the item it holds, and does not exit.
C3_WorkerEmitsAfterFailure ==
    [][\A w \in Workers :
          (w_pc[w] = "translate" /\ w_pc'[w] # "translate")
              => /\ w_pc'[w] = "put"
                 /\ w_item'[w].line_number = w_item[w].line_number]_vars

\* translations that have raised in a worker: each one ends its worker
FailedTranslations == Cardinality({w \in Workers : w_pc[w] = "exited"})

\* C4: with more erroring items than max_errors allows, annotate_all stops
\* consuming right after the (max_errors+1)-th error is recorded: when it
\* has returned, it has recorded exactly max_errors + 1 errors.
C4_AbortAfterBudget ==
    (mode = "threaded" /\ FailedTranslations > max_errors
        /\ mon_pc = "returned")
        => total_errors = max_errors + 1

\* C5: after an error-budget abort the metrics file is written and its
\* 'total' record counts the max_errors + 1 errors consumed.
C5_MetricsAfterAbort ==
    (mode = "threaded" /\ FailedTranslations > max_errors
        /\ mon_pc = "returned")
        => /\ metrics_file.written
           /\ metrics_file.content[TOTAL]["errors"] = max_errors + 1

NumFailing ==
    Cardinality({i \in 1..Len(input) : ServiceRaises(input[i], "gnomad")})

\* C6: in the inline path a failing item does not stop the pipeline: while
\* the input holds no more than max_errors failing items, a run that has
\* ended has handed every item to annotate_all and has written the metrics.
C6_InlineContinuesAfterFailure ==
    (mode = "inline" /\ NumFailing <= max_errors
        /\ mon_pc \in {"raised", "returned"})
        => /\ \A i \in 1..Len(input) : yield_count[i] = 1
           /\ metrics_file.written

\* C7: for a finite non-empty input whose translations all succeed,
\* threaded_translator terminates only after the last result: the run's
\* metrics show successes = N and errors = 0.
C7_TerminatesAfterLastResult ==
    (mode = "threaded" /\ AllSucceed /\ Len(input) > 0 /\ mon_pc = "returned")
        => /\ metrics_file.content[TOTAL][SUCCESSES] = Len(input)
           /\ metrics_file.content[TOTAL]["errors"] = 0

\* C8: while nothing has been dispatched, the consuming loop does not end,
\* whatever the timeouts and the busy flags.
C8_NoCompletionBeforeDispatch ==
    (mode = "threaded" /\ Dispatched = 0) => ~LoopEnded /\ mon_pc # "raised"

\* a timeout with all workers idle and nothing dispatched has happened, and
\* the loop polls again
C8_Witness ==
    /\ mode = "threaded"
    /\ Dispatched = 0
    /\ MsgReader \in logged_already
    /\ \A w \in Workers : ~busy[w]
    /\ mon_pc = "get"

\* C9: the items taken from the input and not yet yielded are bounded by the
\* queue capacities and the worker count, whatever the input length; a full
\* task queue blocks the reader and a full result queue blocks a worker.
C9_BoundedInFlight ==
    mode = "threaded" =>
        /\ Cardinality(task_queue) <= 2 * num_threads
        /\ Cardinality(result_queue) <= 2 * num_threads
        /\ rd_pos - c <= 2 * num_threads + num_threads + 2 * num_threads + 1
        /\ (rd_pc = "put" /\ Cardinality(task_queue) = 2 * num_threads)
              => ~ENABLED ReaderPut
        /\ \A w \in Workers :
              (w_pc[w] = "put" /\ Cardinality(result_queue) = 2 * num_threads)
                  => ~ENABLED WorkerPut(w)

\* both queues full, the worker and the reader each hold one more item, and
\* input is left
C9_Witness ==
    /\ mode = "threaded"
    /\ rd_pos - c = 2 * num_threads + num_threads + 2 * num_threads + 1
    /\ rd_pc = "put"
    /\ \E w \in Workers : w_pc[w] = "put"
    /\ rd_pos < Len(input)

SameKey(a, b) == a.var = b.var /\ a.fmt = b.fmt

SameTranslator(a, b) == a.translator = b.translator

\* C10: with caching enabled two translate_from calls on a translator with
\* the same (var, fmt) return the same value and the later one does not invoke the
\* underlying service; with caching disabled every call invokes it.
C10_CacheIdempotent ==
    mode = "cache" =>
        \A i, j \in 1..Len(call_log) :
            /\ ~cache_enabled => call_log[i].service
            /\ (i < j /\ SameKey(call_log[i], call_log[j])
                    /\ SameTranslator(call_log[i], call_log[j])
                    /\ ~call_log[i].raised /\ cache_enabled)
                  => /\ ~call_log[j].raised
                     /\ call_log[j].val = call_log[i].val
                     /\ ~call_log[j].service
            /\ (i < j /\ SameKey(call_log[i], call_log[j])
                    /\ SameTranslator(call_log[i], call_log[j])
                    /\ ~call_log[i].raised /\ ~call_log[j].raised)
                  => call_log[j].val = call_log[i].val

\* a repeated successful call with caching enabled
C10_Witness ==
    /\ mode = "cache"
    /\ cache_enabled
    /\ \E i, j \in 1..Len(call_log) :
          /\ i < j
          /\ SameKey(call_log[i], call_log[j])
          /\ SameTranslator(call_log[i], call_log[j])
          /\ ~call_log[i].raised

\* C11 as stated: a cache entry written through one worker's translator is
\* never read through another worker's translator, so a call on another
\* translator has to invoke the service itself.
C11_PrivateCache ==
    mode = "cache" =>
        \A i, j \in 1..Len(call_log) :
            (i < j /\ SameKey(call_log[i], call_log[j])
                /\ ~SameTranslator(call_log[i], call_log[j])
                /\ cache_enabled /\ ~call_log[i].raised /\ call_log[i].service)
              => call_log[j].service

\* C11, amended: every worker has a translator instance of its own, but all
\* instances open the same on-disk store: with caching enabled an entry
\* written through one translator is read through every other one, which
\* returns the stored value without invoking the service.
C11_SharedStore ==
    mode = "cache" =>
        \A i, j \in 1..Len(call_log) :
            (i < j /\ SameKey(call_log[i], call_log[j])
                /\ ~SameTranslator(call_log[i], call_log[j])
                /\ cache_enabled /\ ~call_log[i].raised)
              => /\ ~call_log[j].raised
                 /\ ~call_log[j].service
                 /\ call_log[j].val = call_log[i].val

\* one translator has written an entry and another one has been asked for
\* the same key afterwards
C11_Witness ==
    /\ mode = "cache"
    /\ cache_enabled
    /\ \E i, j \in 1..Len(call_log) :
          /\ i < j
          /\ SameKey(call_log[i], call_log[j])
          /\ ~SameTranslator(call_log[i], call_log[j])
          /\ call_log[i].service
          /\ ~call_log[i].raised

-----------------------------------------------------------------------------
(* Properties of the work items *)

\* the items handed to the pipeline that no translator has worked on yet
Handed ==
    task_queue
        \cup (IF rd_pc = "put" THEN {rd_item} ELSE {})
        \cup {w_item[w] : w \in {x \in DOMAIN w_pc :
                                    w_pc[x] \in {"got", "translate"}}}

\* the completed items: emitted by a worker, queued, or yielded to the caller
Emitted ==
    result_queue
        \cup {w_item[w] : w \in {x \in DOMAIN w_pc : w_pc[x] = "put"}}
        \cup (IF current # NoItem THEN {current} ELSE {})

\* annotate_all's view of an item that carries an error (line 144)
HasError(item) == ErrorInResult(item)

HasResult(item) == item.result # None

\* C21: every work item handed to the pipeline has neither result nor error
\* populated, and every item the pipeline yields has exactly one of the two.
C21_ResultXorError ==
    mode \in {"threaded", "inline"} =>
        /\ \A item \in Handed : ~HasResult(item) /\ ~HasError(item)
        /\ \A item \in Emitted : HasResult(item) # HasError(item)

\* an item waits to be translated while a completed one is being consumed
C21_Witness ==
    /\ mode = "threaded"
    /\ Handed # {}
    /\ mon_pc = "consume"
    /\ HasResult(current)

\* C26: Translator.translate_from runs the threaded pipeline if and only if
\* num_threads > 1 and the inline translator otherwise; for the same finite
\* all-succeeding input both paths yield the same multiset of completed
\* items, each item of the input once, and the inline path yields them in
\* input order, one item translated per item pulled.
C26_PathsYieldTheSame ==
    (mode \in {"threaded", "inline"} /\ AllSucceed) =>
        /\ mode = "threaded" <=> num_threads > 1
        /\ mon_pc \in {"metrics", "returned"}
              => \A i \in 1..Len(input) : yield_count[i] = 1
        /\ mode = "inline" =>
              /\ \A i \in 1..Len(input) :
                    yield_count[i] = IF i <= rd_pos THEN 1 ELSE 0
              /\ mon_pc = "consume" => current.line_number = rd_pos

\* the dispatched item a completed item was made from
Origin(item) == InputItem(item.line_number)

\* C23: processing never mutates a work item: a completed item equals the
\* dispatched one in fmt, var, file_name, line_number and identifier and
\* differs only in result, so it carries the provenance of exactly one
\* dispatched item; the items still waiting are the dispatched ones.
C23_CopyOnTransform ==
    mode \in {"threaded", "inline"} =>
        /\ \A item \in Emitted :
              /\ item.line_number \in 1..rd_pos
              /\ item.fmt = Origin(item).fmt
              /\ item.var = Origin(item).var
              /\ item.file_name = Origin(item).file_name
              /\ item.identifier = Origin(item).identifier
        /\ \A item \in Handed :
              item.line_number \in 1..rd_pos /\ item = Origin(item)

\* the second item of a file has been completed before the first one
C23_Witness ==
    /\ mode = "threaded"
    /\ \E item \in Emitted : item.line_number = 2
    /\ \E item \in Handed : item.line_number = 1

-----------------------------------------------------------------------------
(* The knowledge-base membership cache: metakb_ids and MetaKBProxy *)

MaxMisses == 2

\* JSON values of the corpus documents: strings, objects and arrays
Str(s) == [kind |-> "str", s |-> s]
Obj(items) == [kind |-> "obj", items |-> items]
Arr(elems) == [kind |-> "arr", elems |-> elems]

\* Documents the corpus directory may hold. Every "id" value is a string.
DocTop ==
    Obj([id |-> Str("ga4gh:VA.1-100-A-G"), label |-> Str("ga4gh:VA.label")])
DocNested ==
    Obj([id |-> Str("civic.eid:1"),
         variant |-> Obj([id |-> Str("ga4gh:VA.nested"),
                          location |-> Obj([id |-> Str("ga4gh:SL.loc")])])])
DocInList ==
    Obj([statements |->
            Arr(<<Obj([id |-> Str("ga4gh:VA.listed")]),
                  Obj([ref |-> Str("ga4gh:VA.ref")])>>)])
SampleDocs == {DocTop, DocNested, DocInList}

\* identifiers a caller may ask for: the ones above and one of no document
QueryIds ==
    {"ga4gh:VA.1-100-A-G", "ga4gh:VA.nested", "ga4gh:VA.listed",
     "ga4gh:VA.label", "ga4gh:VA.ref", "ga4gh:VA.absent", "civic.eid:1",
     "ga4gh:SL.loc"}

RECURSIVE FindAll(_, _)
\* glom(dictionary, "**.key"): the values found under the key in the value
\* itself and in every value nested in it, through objects and arrays
FindAll(v, key) ==
    IF v.kind = "obj"
    THEN (IF key \in DOMAIN v.items THEN {v.items[key]} ELSE {})
         \cup UNION {FindAll(v.items[k], key) : k \in DOMAIN v.items}
    ELSE IF v.kind = "arr"
    THEN UNION {FindAll(v.elems[i], key) : i \in 1..Len(v.elems)}
    ELSE {}

\* find_items_with_key, lines 206-209
find_items_with_key(dictionary, key_to_find) == FindAll(dictionary, key_to_find)

\* str.startswith
StartsWith(s, prefix) ==
    Len(s) >= Len(prefix) /\ SubSeq(s, 1, Len(prefix)) = prefix

\* metakb_ids line 248: the filter on the values found
IsVrsId(s) == StartsWith(s, "ga4gh:VA")

\* metakb_ids lines 241-250 over the documents of the directory; the order
\* and the repetitions of the yielded ids do not show in the store
metakb_ids(docs) ==
    UNION {{v.s : v \in {x \in find_items_with_key(d, "id") : IsVrsId(x.s)}}
              : d \in docs}

\* MetaKBProxy.get, line 233: self._cache.get(vrs_id, False)
ProxyValue(vrs_id) ==
    IF vrs_id \in DOMAIN kb_store THEN kb_store[vrs_id] ELSE FALSE

\* the cache directory is new, the corpus directory holds some documents,
\* and it may hold a subdirectory "cache"
InitMetaKB ==
    /\ PipelineIdle("metakb")
    /\ CliIdle
    /\ EntryIdle
    /\ corpus \in SUBSET SampleDocs
    /\ kb_cache_dir \in BOOLEAN
    /\ kb_store = EmptyDict
    /\ kb_store_dir = FALSE
    /\ kb_misses = 0
    /\ kb_pc = "none"
    /\ kb_last = NoGet

\* _get_metakb_models, called by metakb_ids line 238-239 when the directory
\* holds no *.json: the documents it downloads and unpacks
Downloaded(docs) == IF corpus = {} THEN docs ELSE corpus

\* MetaKBProxy.__init__ line 221: reload_cache is set when metakb_path holds
\* no subdirectory "cache"
reload_cache == ~kb_cache_dir

\* MetaKBProxy.__init__ lines 218-229 with cache=None: the store of
\* cache_directory("metakb") is opened as it was left on disk, statistics are
\* switched on, and every id of the corpus is set unless the corpus
\* directory holds a subdirectory "cache"
MetaKBProxyInit ==
    /\ mode = "metakb"
    /\ kb_pc = "none"
    /\ kb_store_dir' = TRUE
    /\ IF reload_cache
       THEN \E docs \in SUBSET SampleDocs \ {{}} :
               /\ corpus' = Downloaded(docs)
               /\ kb_store' = [k \in metakb_ids(corpus') |-> TRUE] @@ kb_store
       ELSE UNCHANGED <<corpus, kb_store>>
    /\ kb_pc' = "built"
    /\ kb_last' = NoGet
    /\ UNCHANGED <<pipeline_vars, cli_vars, entry_vars, kb_cache_dir,
                   kb_misses>>

\* MetaKBProxy.get(vrs_id), lines 231-233; diskcache counts a miss when the
\* key is not in the store
MetaKBProxyGet(vrs_id) ==
    /\ mode = "metakb"
    /\ kb_pc = "built"
    /\ kb_misses < MaxMisses
    /\ kb_last' = [id |-> vrs_id, value |-> ProxyValue(vrs_id),
                   miss |-> vrs_id \notin DOMAIN kb_store]
    /\ kb_misses' = IF vrs_id \in DOMAIN kb_store THEN kb_misses
                    ELSE kb_misses + 1
    /\ UNCHANGED <<pipeline_vars, cli_vars, entry_vars, corpus, kb_cache_dir,
                   kb_store, kb_store_dir, kb_pc>>

\* the process that holds the proxy ends; the store stays on disk
ProxyDropped ==
    /\ mode = "metakb"
    /\ kb_pc = "built"
    /\ kb_pc' = "none"
    /\ kb_last' = NoGet
    /\ UNCHANGED <<pipeline_vars, cli_vars, entry_vars, corpus, kb_cache_dir,
                   kb_store, kb_store_dir, kb_misses>>

\* between two runs the documents of the corpus directory are replaced
CorpusReplaced ==
    /\ mode = "metakb"
    /\ kb_pc = "none"
    /\ \E docs \in SUBSET SampleDocs : corpus' = docs /\ corpus' # corpus
    /\ kb_last' = NoGet
    /\ UNCHANGED <<pipeline_vars, cli_vars, entry_vars, kb_cache_dir, kb_store,
                   kb_store_dir, kb_misses, kb_pc>>

NextMetaKB ==
    \/ MetaKBProxyInit
    \/ \E vrs_id \in QueryIds : MetaKBProxyGet(vrs_id)
    \/ ProxyDropped
    \/ CorpusReplaced

SpecMetaKB == InitMetaKB /\ [][NextMetaKB]_vars

\* the "id" strings of the corpus with the prefix ga4gh:VA, at any depth
CorpusIds ==
    {q \in QueryIds : \E d \in corpus : Str(q) \in FindAll(d, "id")
                                        /\ StartsWith(q, "ga4gh:VA")}

\* C12: after a MetaKBProxy is built from a corpus, get(id) returns true for
\* every "ga4gh:VA" string found under an "id" key at any depth of a corpus
\* document and false for every identifier not in the corpus, and a query
\* of a loaded identifier is no cache miss.
C12_MembershipExact ==
    (mode = "metakb" /\ kb_pc = "built" /\ kb_last # NoGet)
        => /\ kb_last.value = (kb_last.id \in CorpusIds)
           /\ kb_last.id \in CorpusIds => ~kb_last.miss

\* a MetaKBProxy is built in this step
ProxyBuilt == kb_pc = "none" /\ kb_pc' = "built"

\* C24: MetaKBProxy rescans the corpus and repopulates the membership store
\* exactly when the on-disk directory of the store it opens is absent;
\* whenever it skips the rebuild, the store it opens already holds every
\* corpus identifier.
C24_RebuildIffStoreAbsent ==
    [][ProxyBuilt =>
          /\ reload_cache <=> ~kb_store_dir
          /\ ~reload_cache =>
                \A id \in CorpusIds :
                    id \in DOMAIN kb_store /\ kb_store[id]]_vars

-----------------------------------------------------------------------------
(* Properties of the metrics *)

\* the per-file records of a metrics dict
Files(m) == DOMAIN m \ {TOTAL}

\* sum of the counts of one file's error histogram
HistogramSum(rec) ==
    LET h == Get(rec, ERROR, EmptyDict) IN SumOver(h, DOMAIN h)

\* C13: at run end the 'total' record holds the sums of the per-file
\* counters: successes, the counts of the error histograms, and
\* knowledge-base hits.
C13_TotalSumsEveryCounter ==
    (mode = "inline" /\ mon_pc = "returned") =>
        LET m == metrics_file.content
            total == m[TOTAL]
        IN /\ total[SUCCESSES]
                 = SumOver([k \in Files(m) |-> Get(m[k], SUCCESSES, 0)], Files(m))
           /\ total["errors"]
                 = SumOver([k \in Files(m) |-> HistogramSum(m[k])], Files(m))
           /\ METAKB_HITS \in DOMAIN total
           /\ total[METAKB_HITS]
                 = SumOver([k \in Files(m) |-> Get(m[k], METAKB_HITS, 0)],
                           Files(m))

\* C14: in the metrics written at run end every per-file record that was
\* started has status 'finished' with end time, elapsed time and line count,
\* whatever the interleaving of reader and consumer.
C14_SerializedRecordsFinished ==
    (mode = "threaded" /\ metrics_file.written) =>
        \A k \in Files(metrics_file.content) :
            LET rec == metrics_file.content[k]
            IN STATUS \in DOMAIN rec
                  => /\ rec[STATUS] = "finished"
                     /\ {END_TIME, ELAPSED_TIME, LINE_COUNT} \subseteq DOMAIN rec

\* the evidence map of a per-file record
Evidence(rec) == Get(rec, EVIDENCE, EmptyDict)

CountersOrdered ==
    \A k \in Files(metrics) :
        SUCCESSES \in DOMAIN metrics[k]
            => /\ Cardinality(DOMAIN Evidence(metrics[k]))
                     <= metrics[k][METAKB_HITS]
               /\ metrics[k][METAKB_HITS] <= metrics[k][SUCCESSES]

SuccessStep ==
    (mon_pc = "consume" /\ mon_pc' # "consume" /\ ~ErrorInResult(current)) =>
        LET k == current.file_name
            id == current.result
        IN /\ metrics'[k][SUCCESSES] = metrics[k][SUCCESSES] + 1
           /\ IF MetaKBGet(id)
              THEN /\ metrics'[k][METAKB_HITS] = metrics[k][METAKB_HITS] + 1
                   /\ id \in DOMAIN Evidence(metrics'[k])
                   /\ Evidence(metrics'[k])[id]
                         = [fmt |-> current.fmt, var |-> current.var]
              ELSE /\ metrics'[k][METAKB_HITS] = metrics[k][METAKB_HITS]
                   /\ Evidence(metrics'[k]) = Evidence(metrics[k])

-----------------------------------------------------------------------------
(* The command line: annotate, annotate --scatter and ps (cli.py) *)

MaxFiles == 2
MaxTime == 1

\* the vcf files a parent manifest may list
VcfFiles == {"a.vcf", "b.vcf"}

\* process ids the operating system hands out
PidPool == {1, 2, 21}

RECURSIVE Digits(_)
\* str(n) of a natural number, as the f-strings of cli.py format a pid
Digits(n) ==
    IF n < 10 THEN SubSeq("0123456789", n + 1, n + 1)
    ELSE Digits(n \div 10) \o SubSeq("0123456789", (n % 10) + 1, (n % 10) + 1)

\* datetime.now().strftime("%Y%m%d_%H%M%S") at second t of the model's clock
Timestamp(t) == "20240507_20311" \o Digits(t)

\* the characters of file names, in the order of their code points
Alphabet == ".0123456789_abcdefghijklmnopqrstuvwxyz"

Ord(ch) == CHOOSE i \in 1..Len(Alphabet) : SubSeq(Alphabet, i, i) = ch

RECURSIVE LessFrom(_, _, _)
\* a < b for two strings that are equal before index i
LessFrom(a, b, i) ==
    IF i > Len(b) THEN FALSE
    ELSE IF i > Len(a) THEN TRUE
    ELSE IF SubSeq(a, i, i) = SubSeq(b, i, i) THEN LessFrom(a, b, i + 1)
    ELSE Ord(SubSeq(a, i, i)) < Ord(SubSeq(b, i, i))

\* a < b for two strings, as sorted() orders the paths of one directory
StrLess(a, b) == LessFrom(a, b, 1)

\* str.endswith
EndsWith(s, suffix) ==
    Len(s) >= Len(suffix)
        /\ SubSeq(s, Len(s) - Len(suffix) + 1, Len(s)) = suffix

\* Path.glob of a pattern "prefix*suffix" over the names of a directory
Glob(names, prefix, suffix) ==
    {n \in names : /\ Len(n) >= Len(prefix) + Len(suffix)
                   /\ StartsWith(n, prefix)
                   /\ EndsWith(n, suffix)}

\* the first element of sorted(paths)
First(paths) == CHOOSE n \in paths : \A o \in paths \ {n} : StrLess(n, o)

\* sorted(paths)[-1]
Last(paths) == CHOOSE n \in paths : \A o \in paths \ {n} : StrLess(o, n)

\* cli.py line 47: the log file of the process pid started at second t
LogName(t, pid) ==
    "vrs_anvil_" \o Timestamp(t) \o "_" \o Digits(pid) \o ".log"

\* annotator.py lines 187-189: the metrics file of that process
MetricsName(t, pid) ==
    "metrics_" \o Timestamp(t) \o "_" \o Digits(pid) \o ".yaml"

\* a manifest name without the counter
ChildManifestNameNoCounter(t, n) == "manifest_" \o Timestamp(t) \o ".yaml"

\* cli.py line 115: the manifest of the child with counter value n
ChildManifestName(t, n) ==
    "manifest_" \o Timestamp(t) \o "_" \o Digits(n) \o ".yaml"

\* cli.py line 122: the registry of a scatter run
RegistryName(t) == "scattered_processes_" \o Timestamp(t) \o ".yaml"

\* the state of a process: "launched" (the interpreter starts), "running"
\* (cli has made its log file at second ts) or "exited"
Proc(state, ts) == [state |-> state, ts |-> ts]

\* run_command_in_background(command): the command is started as a new
\* process and the call returns its pid without waiting for it; this is the
\* state of that process when the call returns
run_command_in_background == Proc("launched", 0)

\* cli.py lines 111-114: the manifest of the child for one vcf file
ChildManifest(vcf) ==
    [vcf_files |-> <<vcf>>, num_threads |-> 1, disable_progress_bars |-> TRUE]

\* cli.py line 120: the registry entry of one child
RegistryEntry(pid, manifest, vcf) ==
    [pid |-> pid, manifest |-> manifest, vcf |-> vcf]

InitCli ==
    /\ PipelineIdle("cli")
    /\ KbIdle
    /\ CliIdle
    /\ EntryIdle

\* one second passes
Tick ==
    /\ mode = "cli"
    /\ now < MaxTime
    /\ now' = now + 1
    /\ UNCHANGED <<pipeline_vars, kb_vars, entry_vars, work_dir, state_dir, procs, report,
                   exit_code>>

\* `vrs_anvil annotate --scatter` with a valid manifest listing vcf_files, run
\* as process ppid: cli (lines 37-73) makes the parent's log file, annotate_cli
\* (lines 104-126) writes one manifest per file, launches one child per file
\* with run_command_in_background, which returns the child's pid at once,
\* and writes the registry.
AnnotateScatter(vcf_files, ppid, pids) ==
    /\ mode = "cli"
    /\ ppid \notin DOMAIN procs
    /\ \A i \in 1..Len(vcf_files) :
          /\ pids[i] \notin DOMAIN procs \cup {ppid}
          /\ \A j \in 1..Len(vcf_files) : pids[i] = pids[j] => i = j
    /\ LET N == Len(vcf_files)
           manifest_path(i) == ChildManifestName(now, i - 1)
           manifests == {manifest_path(i) : i \in 1..N}
           scattered_processes ==
               [i \in 1..N |->
                   RegistryEntry(pids[i], manifest_path(i), vcf_files[i])]
       IN /\ work_dir' =
                [n \in DOMAIN work_dir \cup manifests \cup {RegistryName(now)} |->
                    IF n = RegistryName(now)
                    THEN [parent_pid |-> ppid, processes |-> scattered_processes]
                    ELSE IF n \in manifests
                    THEN ChildManifest(
                             vcf_files[CHOOSE i \in 1..N : manifest_path(i) = n])
                    ELSE work_dir[n]]
          /\ procs' = [p \in DOMAIN procs \cup {ppid} \cup {pids[i] : i \in 1..N} |->
                          IF p = ppid THEN Proc("exited", now)
                          ELSE IF p \in DOMAIN procs THEN procs[p]
                          ELSE run_command_in_background]
          /\ report' = [cmd |-> "annotate --scatter", vcf_files |-> vcf_files,
                        timestamp_str |-> Timestamp(now), pid |-> ppid,
                        error |-> "none",
                        annotating |-> [i \in 1..N |->
                                           [vcf |-> vcf_files[i], pid |-> pids[i]]],
                        available |-> RegistryName(now)]
    /\ state_dir' = state_dir \cup {LogName(now, ppid)}
    /\ exit_code' = 0
    /\ UNCHANGED <<pipeline_vars, kb_vars, entry_vars, now>>

\* a launched child reaches cli (lines 37-64): it takes its own timestamp and
\* makes its log file
ChildStart(pid) ==
    /\ mode = "cli"
    /\ pid \in DOMAIN procs
    /\ procs[pid].state = "launched"
    /\ procs' = [procs EXCEPT ![pid] = Proc("running", now)]
    /\ state_dir' = state_dir \cup {LogName(now, pid)}
    /\ UNCHANGED <<pipeline_vars, kb_vars, entry_vars, work_dir, now, report, exit_code>>

\* a running child ends: annotate_all has written its metrics file
\* (annotator.py 184-201) and returned, or it has raised (the inline path
\* raises on a variant that does not translate) and annotate_cli has printed
\* the exception (cli.py 100-102)
ChildExit(pid, raised) ==
    /\ mode = "cli"
    /\ pid \in DOMAIN procs
    /\ procs[pid].state = "running"
    /\ procs' = [procs EXCEPT ![pid] = Proc("exited", @.ts)]
    /\ state_dir' = IF raised THEN state_dir
                    ELSE state_dir \cup {MetricsName(procs[pid].ts, pid)}
    /\ UNCHANGED <<pipeline_vars, kb_vars, entry_vars, work_dir, now, report, exit_code>>

\* `vrs_anvil annotate` with a valid manifest, run as process ppid to its
\* end: cli makes the log file, annotate_cli (lines 93-102) calls annotate_all
\* and prints the metrics file, or prints the exception annotate_all raised
Annotate(ppid, raised) ==
    /\ mode = "cli"
    /\ ppid \notin DOMAIN procs
    /\ procs' = [p \in DOMAIN procs \cup {ppid} |->
                    IF p = ppid THEN Proc("exited", now) ELSE procs[p]]
    /\ state_dir' = state_dir \cup {LogName(now, ppid)}
                        \cup (IF raised THEN {} ELSE {MetricsName(now, ppid)})
    /\ report' = [cmd |-> "annotate", pid |-> ppid,
                  error |-> IF raised THEN "annotate_all" ELSE "none"]
    /\ exit_code' = 0
    /\ UNCHANGED <<pipeline_vars, kb_vars, entry_vars, work_dir, now>>

Subcommands == {"", "annotate", "annotate --scatter", "ps"}

\* the exit code of the interpreter when an exception leaves the command
UncaughtExit == 1

\* `vrs_anvil [subcommand]` with a manifest that cannot be opened or does not
\* validate: cli prints the exception and leaves ctx.obj empty (lines 78-80).
\* Without subcommand nothing else runs. annotate_cli reads
\* ctx.obj["timestamp_str"] outside its try blocks (line 90): KeyError leaves
\* the command. ps_cli's assert (line 137) is inside its try: the
\* AssertionError is printed (lines 175-177).
ManifestFails(sub) ==
    /\ mode = "cli"
    /\ report' = [cmd |-> sub, error |-> "manifest"]
    /\ exit_code' = IF sub \in {"annotate", "annotate --scatter"}
                    THEN UncaughtExit ELSE 0
    /\ UNCHANGED <<pipeline_vars, kb_vars, entry_vars, work_dir, state_dir, procs, now>>

\* get_process_info(pid): the process with that pid if there is one
get_process_info(pid) == pid \in DOMAIN procs /\ procs[pid].state # "exited"

\* psutil's Process.status() of a live process
AliveStatuses == {"running", "sleeping"}

\* ps_cli line 140
RegistryPaths == Glob(DOMAIN work_dir, "scattered_processes_", ".yaml")

\* a test that never finds the list empty
NoRegistryFoundNever(paths) == FALSE

\* ps_cli line 141: `if not scattered_processes_paths`
NoRegistryFound(paths) == paths = {}

\* ps_cli lines 149-174 for one registry entry: the files found for the pid,
\* then what is printed of the process. The second glob is not made when
\* the first one finds nothing (IndexError, line 154).
PsEntry(e, status) ==
    LET logs == Glob(state_dir, "vrs_anvil", Digits(e.pid) \o ".log")
        mets == Glob(state_dir, "metrics_", Digits(e.pid) \o ".yaml")
    IN [pid |-> e.pid, manifest |-> e.manifest, vcf |-> e.vcf,
        log_file |-> IF logs = {} THEN "NA" ELSE Last(logs),
        metrics_file |-> IF logs = {} \/ mets = {} THEN "NA" ELSE Last(mets),
        status |-> IF get_process_info(e.pid) THEN status ELSE "completed",
        usage |-> get_process_info(e.pid) /\ status = "running"]

\* `vrs_anvil ps` with a valid manifest (ps_cli lines 136-177)
Ps ==
    /\ mode = "cli"
    /\ IF NoRegistryFound(RegistryPaths)
       THEN report' = [cmd |-> "ps", error |-> "none",
                       printed |-> "no scattered processes found",
                       loaded |-> {}, entries |-> <<>>, queried |-> {}]
       ELSE IF RegistryPaths = {}
       THEN report' = [cmd |-> "ps", error |-> "none",
                       printed |-> "list index out of range",
                       loaded |-> {}, entries |-> <<>>, queried |-> {}]
       ELSE LET path == Last(RegistryPaths)
                processes == work_dir[path].processes
                alive == {q \in PidPool : get_process_info(q)}
            IN \E status \in [alive -> AliveStatuses] :
                  report' =
                     [cmd |-> "ps", error |-> "none", printed |-> "entries",
                      loaded |-> {path},
                      entries |-> [i \in 1..Len(processes) |->
                                     PsEntry(processes[i],
                                             IF processes[i].pid \in alive
                                             THEN status[processes[i].pid]
                                             ELSE "completed")],
                      queried |-> {processes[i].pid : i \in 1..Len(processes)}]
    /\ exit_code' = 0
    /\ UNCHANGED <<pipeline_vars, kb_vars, entry_vars, work_dir, state_dir, procs, now>>

\* injective sequences of n pids
PidSeqs(n) ==
    {q \in [1..n -> PidPool] : \A i, j \in 1..n : q[i] = q[j] => i = j}

NextCli ==
    \/ Tick
    \/ \E n \in 0..MaxFiles : \E vcf_files \in [1..n -> VcfFiles] :
          \E ppid \in PidPool, pids \in PidSeqs(n) :
             AnnotateScatter(vcf_files, ppid, pids)
    \/ \E pid \in PidPool : ChildStart(pid)
    \/ \E pid \in PidPool, raised \in BOOLEAN : ChildExit(pid, raised)
    \/ \E ppid \in PidPool, raised \in BOOLEAN : Annotate(ppid, raised)
    \/ \E sub \in Subcommands : ManifestFails(sub)
    \/ Ps

SpecCli == InitCli /\ [][NextCli]_vars

-----------------------------------------------------------------------------
(* Properties of the command line *)

\* the step is a run of `annotate --scatter` with a valid manifest
ScatterRan ==
    /\ report'.cmd = "annotate --scatter"
    /\ report'.error = "none"
    /\ report' # report

\* C16: annotate --scatter over N input files writes N child manifests, the
\* i-th holding exactly the i-th input file and num_threads = 1, launches N
\* background processes without waiting for them, and writes one registry
\* whose 'processes' list has N entries {pid, manifest, vcf}, the i-th
\* pairing the i-th input file with the pid its launch returned and the path
\* of its own child manifest.
C16_ScatterWritesRegistry ==
    [][ScatterRan =>
         LET vcf_files == report'.vcf_files
             N == Len(vcf_files)
             registry == report'.available
             processes == work_dir'[registry].processes
             written == {n \in DOMAIN work_dir' :
                           n \notin DOMAIN work_dir \/ work_dir'[n] # work_dir[n]}
         IN /\ registry \in DOMAIN work_dir'
            /\ Len(processes) = N
            /\ \A i \in 1..N :
                  /\ DOMAIN processes[i] = {"pid", "manifest", "vcf"}
                  /\ processes[i].vcf = vcf_files[i]
                  /\ processes[i].pid = report'.annotating[i].pid
                  /\ processes[i].manifest \in DOMAIN work_dir'
                  /\ work_dir'[processes[i].manifest].vcf_files = <<vcf_files[i]>>
                  /\ work_dir'[processes[i].manifest].num_threads = 1
                  /\ processes[i].pid \notin DOMAIN procs
                  /\ procs'[processes[i].pid].state = "launched"
                  /\ \A j \in 1..N :
                        i # j => /\ processes[i].manifest # processes[j].manifest
                                 /\ processes[i].pid # processes[j].pid
            /\ written \subseteq
                  {registry} \cup {processes[i].manifest : i \in 1..N}
            /\ DOMAIN procs' \ DOMAIN procs
                  = {report'.pid} \cup {processes[i].pid : i \in 1..N}
            /\ \A p \in DOMAIN procs : procs'[p] = procs[p]]_vars

\* a scatter over two different files has run
C16_Witness ==
    /\ mode = "cli"
    /\ report.cmd = "annotate --scatter"
    /\ Len(report.vcf_files) = 2
    /\ report.vcf_files[1] # report.vcf_files[2]
    /\ Len(work_dir[report.available].processes) = 2

\* the step is a run of ps that has loaded a registry
PsRan == report'.cmd = "ps" /\ report'.error = "none" /\ report' # report

\* C17: for each registry entry ps reports the process as running while the
\* child is alive and as completed once it is not, and it reports a child's
\* own log and metrics files (for the files that the child has written).
C17_PsReportsOwnFiles ==
    [][PsRan =>
         \A i \in 1..Len(report'.entries) :
            LET e == report'.entries[i]
                own_log == LogName(procs[e.pid].ts, e.pid)
                own_metrics == MetricsName(procs[e.pid].ts, e.pid)
            IN /\ (procs[e.pid].state # "exited") = (e.status # "completed")
               /\ procs[e.pid].state # "launched" => e.log_file = own_log
               /\ own_metrics \in state_dir => e.metrics_file = own_metrics]_vars

\* C18: ps run when the work directory holds no registry file reports that
\* no scattered processes were found and returns normally: it raises
\* nothing, reads no registry and queries no process.
C18_PsWithoutRegistry ==
    (mode = "cli" /\ report.cmd = "ps" /\ report.error = "none"
        /\ RegistryPaths = {})
        => /\ report.printed = "no scattered processes found"
           /\ report.loaded = {}
           /\ report.queried = {}
           /\ report.entries = <<>>
           /\ exit_code = 0

\* ps has run with no registry although processes have been started
C18_Witness ==
    /\ mode = "cli"
    /\ report.cmd = "ps"
    /\ report.error = "none"
    /\ RegistryPaths = {}
    /\ DOMAIN procs # {}

\* the seconds at which a scatter run has written a registry that is there
RegistryTimes == {t \in 0..MaxTime : RegistryName(t) \in DOMAIN work_dir}

\* C19: when several registry files exist, ps loads the one written by the
\* most recent scatter run (greatest timestamp) and only that one, and
\* reports the pid, child manifest and source file of each of its entries.
C19_PsLoadsLatestRegistry ==
    (mode = "cli" /\ report.cmd = "ps" /\ report.error = "none"
        /\ RegistryTimes # {})
        => LET t == CHOOSE u \in RegistryTimes : \A v \in RegistryTimes : v <= u
               processes == work_dir[RegistryName(t)].processes
           IN /\ report.loaded = {RegistryName(t)}
              /\ Len(report.entries) = Len(processes)
              /\ \A i \in 1..Len(processes) :
                    /\ report.entries[i].pid = processes[i].pid
                    /\ report.entries[i].manifest = processes[i].manifest
                    /\ report.entries[i].vcf = processes[i].vcf

\* ps has run with two registries in the work directory, the later one with
\* an entry
C19_Witness ==
    /\ mode = "cli"
    /\ report.cmd = "ps"
    /\ report.error = "none"
    /\ Cardinality(RegistryTimes) = 2
    /\ Len(report.entries) > 0

\* C20: the executable exits with code 0 on success and with a non-zero code
\* when the manifest cannot be loaded or validated or when annotate_all
\* raises.
C20_ExitCodeTellsFailure ==
    (mode = "cli" /\ report.cmd # "none")
        => ((exit_code = 0) = (report.error = "none"))

-----------------------------------------------------------------------------
(* Collecting the input files: collect_manifest_urls (collector.py) *)

MaxEntries == 2

\* entries a manifest may list under manifest_vcf_files
Urls ==
    {"http://h/a.vcf", "gs://b/a.vcf", "s3://b/c.vcf", "file://d/a.vcf",
     "d/b.vcf", "e/b.vcf"}

\* manifest.work_directory
WorkDirectory == "work/"

\* the python slice s[n:]
After(s, n) == SubSeq(s, n + 1, Len(s))

Slashes(s) == {i \in 1..Len(s) : SubSeq(s, i, i) = "/"}

\* os.path.basename(s), s.split("/")[-1]
Basename(s) ==
    IF Slashes(s) = {} THEN s
    ELSE After(s, CHOOSE i \in Slashes(s) : \A j \in Slashes(s) : j <= i)

\* s.split("/", 1)[1]
AfterFirstSlash(s) ==
    After(s, CHOOSE i \in Slashes(s) : \A j \in Slashes(s) : i <= j)

\* collect_manifest_urls lines 75-88: the handler submitted for an entry
Handler(vcf_file) ==
    IF StartsWith(vcf_file, "http") THEN "download_http_file"
    ELSE IF StartsWith(vcf_file, "gs://") THEN "download_google_blob"
    ELSE IF StartsWith(vcf_file, "s3://") THEN "download_s3_object"
    ELSE "create_symlink_to_work_directory"

\* the local path the handler of an entry looks for, makes and returns:
\* collector.py lines 39, 79, 83 and 53-56
Destination(vcf_file) ==
    IF Handler(vcf_file) \in {"download_google_blob", "download_s3_object"}
    THEN WorkDirectory \o AfterFirstSlash(After(vcf_file, 5))
    ELSE WorkDirectory \o Basename(vcf_file)

\* collect_manifest_urls lines 85-88: the path handed to
\* create_symlink_to_work_directory, which os.symlink makes the link's target
Source(vcf_file) ==
    IF StartsWith(vcf_file, "file://") THEN After(vcf_file, 7) ELSE vcf_file

\* what earlier runs may have left in the work directory
PriorRuns ==
    {EmptyDict, ("work/c.vcf" :> [kind |-> "file"]),
     ("work/a.vcf" :> [kind |-> "link", target |-> "d/a.vcf"])}

\* the first test of a handler: os.path.exists(destination), and
\* os.path.islink(symlink_path) in create_symlink_to_work_directory
Present(f) ==
    /\ f.dest \in DOMAIN work_dir
    /\ f.handler = "create_symlink_to_work_directory"
          => work_dir[f.dest].kind = "link"

InitCollect ==
    /\ PipelineIdle("collect")
    /\ KbIdle
    /\ work_dir \in PriorRuns
    /\ state_dir = {}
    /\ procs = EmptyDict
    /\ now = 0
    /\ report = [cmd |-> "none"]
    /\ exit_code = 0
    /\ manifest_vcf_files \in UNION {[1..n -> Urls] : n \in 0..MaxEntries}
    /\ futures = <<>>
    /\ collected = <<>>
    /\ col_pc = "submit"
    /\ tr_call = <<>>
    /\ VcfIdle
    /\ results = <<>>

\* collect_manifest_urls lines 72-88: the executor is made and one handler
\* call per entry is submitted; the pool has a thread for each of them
CollectSubmit ==
    /\ mode = "collect"
    /\ col_pc = "submit"
    /\ futures' = [i \in 1..Len(manifest_vcf_files) |->
                      [handler |-> Handler(manifest_vcf_files[i]),
                       dest |-> Destination(manifest_vcf_files[i]),
                       src |-> Source(manifest_vcf_files[i]),
                       pc |-> "submitted", yielded |-> FALSE]]
    /\ col_pc' = "collect"
    /\ UNCHANGED <<pipeline_vars, kb_vars, tr_call, vcf_vars, results, cli_vars, manifest_vcf_files, collected>>

\* a handler begins (collector.py lines 14, 24, 41, 59): it returns the
\* destination at once if it finds it in the work directory
HandlerCheck(i) ==
    /\ mode = "collect"
    /\ i \in DOMAIN futures
    /\ futures[i].pc = "submitted"
    /\ futures' = [futures EXCEPT ![i].pc = IF Present(futures[i])
                                            THEN "returned" ELSE "checked"]
    /\ UNCHANGED <<pipeline_vars, kb_vars, tr_call, vcf_vars, results, cli_vars, manifest_vcf_files, collected,
                   col_pc>>

\* a handler that did not find the destination makes it. The downloads of
\* download_http_file and download_google_blob succeed and write the file;
\* download_s3_object calls s3.download_http_file, which the S3 client does
\* not have (AttributeError); os.symlink raises FileExistsError if the path
\* exists by now.
HandlerMake(i) ==
    /\ mode = "collect"
    /\ i \in DOMAIN futures
    /\ futures[i].pc = "checked"
    /\ LET f == futures[i]
       IN IF f.handler \in {"download_http_file", "download_google_blob"}
          THEN /\ work_dir' = Put(work_dir, f.dest,
                                  Get(work_dir, f.dest, [kind |-> "file"]))
               /\ futures' = [futures EXCEPT ![i].pc = "returned"]
          ELSE IF f.handler = "download_s3_object"
          THEN /\ futures' = [futures EXCEPT ![i].pc = "raised"]
               /\ UNCHANGED work_dir
          ELSE IF f.dest \in DOMAIN work_dir
          THEN /\ futures' = [futures EXCEPT ![i].pc = "raised"]
               /\ UNCHANGED work_dir
          ELSE /\ work_dir' = Put(work_dir, f.dest,
                                  [kind |-> "link", target |-> f.src])
               /\ futures' = [futures EXCEPT ![i].pc = "returned"]
    /\ UNCHANGED <<pipeline_vars, kb_vars, tr_call, vcf_vars, results, state_dir, procs, now, report,
                   exit_code, manifest_vcf_files, collected, col_pc>>

\* collect_manifest_urls lines 90-91: as_completed hands out a future that
\* is done and _.result() returns the handler's value, which is yielded, or
\* raises the handler's exception, which ends the generator
CollectYield(i) ==
    /\ mode = "collect"
    /\ col_pc = "collect"
    /\ i \in DOMAIN futures
    /\ ~futures[i].yielded
    /\ futures[i].pc \in {"returned", "raised"}
    /\ futures' = [futures EXCEPT ![i].yielded = TRUE]
    /\ IF futures[i].pc = "returned"
       THEN /\ collected' = Append(collected, futures[i].dest)
            /\ UNCHANGED col_pc
       ELSE /\ col_pc' = "raised"
            /\ UNCHANGED collected
    /\ UNCHANGED <<pipeline_vars, kb_vars, tr_call, vcf_vars, results, cli_vars, manifest_vcf_files>>

\* as_completed has handed out every future: the generator ends
CollectEnd ==
    /\ mode = "collect"
    /\ col_pc = "collect"
    /\ \A i \in DOMAIN futures : futures[i].yielded
    /\ col_pc' = "done"
    /\ UNCHANGED <<pipeline_vars, kb_vars, tr_call, vcf_vars, results, cli_vars, manifest_vcf_files, futures,
                   collected>>

NextCollect ==
    \/ CollectSubmit
    \/ \E i \in 1..MaxEntries : HandlerCheck(i)
    \/ \E i \in 1..MaxEntries : HandlerMake(i)
    \/ \E i \in 1..MaxEntries : CollectYield(i)
    \/ CollectEnd

SpecCollect == InitCollect /\ [][NextCollect]_vars

\* how often x occurs in the sequence seq
Count(seq, x) == Cardinality({i \in DOMAIN seq : seq[i] = x})

\* C22: collect_manifest_urls yields exactly one local path per entry of
\* manifest.vcf_files, the value of the handler selected by the entry's
\* scheme; the yielded multiset is the same for every completion order of
\* the handlers.
C22_OnePathPerEntry ==
    (mode = "collect" /\ col_pc \in {"done", "raised"}) =>
        \A u \in Urls :
            Count(collected, Destination(u))
                = Cardinality({i \in DOMAIN manifest_vcf_files :
                                 Destination(manifest_vcf_files[i]) = Destination(u)})

-----------------------------------------------------------------------------
(* Reading a vcf file: generate_gnomad_ids and _vcf_generator *)

MaxAlts == 2
MaxLines == 3
MaxLimit == 2

\* str.split(sep) for a separator of one character
RECURSIVE Split(_, _)
Split(s, sep) ==
    LET at == {i \in 1..Len(s) : SubSeq(s, i, i) = sep}
    IN IF at = {} THEN <<s>>
       ELSE LET i == CHOOSE j \in at : \A k \in at : j <= k
            IN <<SubSeq(s, 1, i - 1)>> \o Split(After(s, i), sep)

\* str.strip()
RECURSIVE Strip(_)
Strip(s) ==
    IF s = "" THEN s
    ELSE IF SubSeq(s, 1, 1) \in {" ", "\t", "\n"} THEN Strip(After(s, 1))
    ELSE IF SubSeq(s, Len(s), Len(s)) \in {" ", "\t", "\n"}
    THEN Strip(SubSeq(s, 1, Len(s) - 1))
    ELSE s

\* the python test `token in s` on strings
Contains(s, token) ==
    \E i \in 1..Len(s) :
        i + Len(token) <= Len(s) + 1 /\ SubSeq(s, i, i + Len(token) - 1) = token

\* a skip list without the star
InvalidAltsWithoutStar ==
    {"INS", "DEL", "DUP", "INV", "CNV", "TANDEM", "INT", "EXT"}

\* generate_gnomad_ids line 175
invalid_alts ==
    {"INS", "DEL", "DUP", "INV", "CNV", "TANDEM", "INT", "EXT", "*"}

\* generate_gnomad_ids lines 176-185: no entry of the skip list is in alt
is_valid(alt) == \A invalid_alt \in invalid_alts : ~Contains(alt, invalid_alt)

RECURSIVE AltIds(_, _, _)
\* generate_gnomad_ids lines 170-186: the loop over the alternates
AltIds(gnomad_loc, reference_allele, alts) ==
    IF alts = <<>> THEN <<>>
    ELSE LET alt == Strip(Head(alts))
         IN (IF is_valid(alt)
             THEN <<gnomad_loc \o "-" \o reference_allele \o "-" \o alt>>
             ELSE <<>>)
            \o AltIds(gnomad_loc, reference_allele, Tail(alts))

\* generate_gnomad_ids, lines 155-188
generate_gnomad_ids(vcf_line, for_ref) ==
    LET fields == Split(Strip(vcf_line), "\t")
        chromosome == fields[1]
        position == fields[2]
        reference_allele == fields[4]
        alternate_allele == fields[5]
        gnomad_loc == chromosome \o "-" \o position
    IN (IF for_ref
        THEN <<gnomad_loc \o "-" \o reference_allele \o "-"
                   \o reference_allele>>
        ELSE <<>>)
       \o AltIds(gnomad_loc, reference_allele, Split(alternate_allele, ","))

\* alternates a record may list: bases, symbolic alleles, the star, a
\* missing value
AltPool == {"G", "TA", "<DEL>", "<DUP:TANDEM>", "<INS:ME>", "*", ".", "N"}

\* variant records: chromosome, position, reference and alternates
Records ==
    [chrom : {"1", "chrX"}, pos : {"100"}, ref : {"A", "CT"},
     alts : UNION {[1..n -> AltPool] : n \in 1..MaxAlts}]

RECURSIVE Join(_, _)
\* sep.join(seq)
Join(seq, sep) ==
    IF Len(seq) = 0 THEN ""
    ELSE IF Len(seq) = 1 THEN seq[1]
    ELSE seq[1] \o sep \o Join(Tail(seq), sep)

\* the line of a vcf file for a record: CHROM POS ID REF ALT QUAL, separated
\* by tabs and ended by a newline
VcfLine(r) ==
    Join(<<r.chrom, r.pos, ".", r.ref, Join(r.alts, ","), "50">>, "\t") \o "\n"

HeaderLine == "#CHROM\tPOS\tID\tREF\tALT\tQUAL\n"

\* the lines of the files that are read with a limit
FileLines ==
    {HeaderLine,
     VcfLine([chrom |-> "1", pos |-> "100", ref |-> "A", alts |-> <<"G">>]),
     VcfLine([chrom |-> "1", pos |-> "200", ref |-> "C",
              alts |-> <<"T", "<DEL>">>]),
     VcfLine([chrom |-> "1", pos |-> "300", ref |-> "G", alts |-> <<"<INS>">>])}

\* _vcf_generator is at the with block of one file (annotator.py line 65)
VcfStart ==
    /\ PipelineIdle("vcf")
    /\ KbIdle
    /\ CliIdle
    /\ ColIdle
    /\ tr_call = <<>>
    /\ results = <<>>
    /\ compute_for_ref \in BOOLEAN
    /\ vcf_line_number = 0
    /\ vcf_yielded = <<>>
    /\ vcf_pc = "lines"

\* a file of one record, read without limit
InitGnomad ==
    /\ VcfStart
    /\ limit = 0
    /\ vcf_lines \in {<<VcfLine(r)>> : r \in Records}

\* a file of header and record lines, read with or without limit
InitVcf ==
    /\ VcfStart
    /\ limit \in 0..MaxLimit
    /\ vcf_lines \in UNION {[1..n -> FileLines] : n \in 0..MaxLines}

\* _vcf_generator lines 66-70, run once when the file is opened
VcfOpened(m) == IF FileName \in DOMAIN m THEN m ELSE MetricsOpened(m, FileName)

\* _vcf_generator lines 72-85: one turn of the loop over the lines
VcfReadLine ==
    /\ mode = "vcf"
    /\ vcf_pc = "lines"
    /\ vcf_line_number < Len(vcf_lines)
    /\ vcf_line_number' = vcf_line_number + 1
    /\ metrics' = VcfOpened(metrics)
    /\ LET line == vcf_lines[vcf_line_number']
           ids == generate_gnomad_ids(line, compute_for_ref)
       IN IF StartsWith(line, "#")
          THEN UNCHANGED <<vcf_yielded, vcf_pc>>
          ELSE /\ vcf_yielded' =
                     vcf_yielded \o [i \in 1..Len(ids) |->
                                        [var |-> ids[i],
                                         line_number |-> vcf_line_number']]
               /\ vcf_pc' = IF limit # 0 /\ vcf_line_number' > limit
                            THEN "break" ELSE "lines"
    /\ UNCHANGED <<mode, input, num_threads, max_errors, cache_enabled, rd_pc,
                   rd_pos, rd_item, task_queue, result_queue, w_pc, busy,
                   w_item, mon_pc, c, scan_i, logged_already, yield_count,
                   current, total_errors, metrics_file, cache, svc_calls,
                   call_log, kb_vars, cli_vars, col_vars, tr_call, vcf_lines,
                   compute_for_ref, limit, results>>

\* _vcf_generator lines 87-93: the loop has ended, by the end of the file or
\* by the break
VcfClose ==
    /\ mode = "vcf"
    /\ \/ vcf_pc = "break"
       \/ vcf_pc = "lines" /\ vcf_line_number = Len(vcf_lines)
    /\ metrics' = MetricsFinished(VcfOpened(metrics), FileName,
                                  vcf_line_number)
    /\ vcf_pc' = "done"
    /\ UNCHANGED <<mode, input, num_threads, max_errors, cache_enabled, rd_pc,
                   rd_pos, rd_item, task_queue, result_queue, w_pc, busy,
                   w_item, mon_pc, c, scan_i, logged_already, yield_count,
                   current, total_errors, metrics_file, cache, svc_calls,
                   call_log, kb_vars, cli_vars, col_vars, tr_call, vcf_lines,
                   compute_for_ref, limit, vcf_line_number, vcf_yielded,
                   results>>

NextVcf ==
    \/ VcfReadLine
    \/ VcfClose

SpecGnomad == InitGnomad /\ [][NextVcf]_vars

SpecVcf == InitVcf /\ [][NextVcf]_vars

\* the skip tokens of symbolic alleles
SkipTokens == {"INS", "DEL", "DUP", "INV", "CNV", "TANDEM", "INT", "EXT", "*"}

\* the expressions of a record: the reference expression if asked for, then
\* one expression per alternate without skip token, in record order
Expressions(r, for_ref) ==
    LET Kept(alt) == \A token \in SkipTokens : ~Contains(alt, token)
        kept == SelectSeq(r.alts, Kept)
        loc == r.chrom \o "-" \o r.pos \o "-" \o r.ref \o "-"
    IN (IF for_ref THEN <<loc \o r.ref>> ELSE <<>>)
       \o [i \in 1..Len(kept) |-> loc \o kept[i]]

\* C27: for a record with chromosome C, position P, reference R and
\* comma-separated alternates, generate_gnomad_ids returns, in order,
\* 'C-P-R-R' if and only if compute_for_ref is set, followed by 'C-P-R-alt'
\* for each alternate in record order that contains no skip token; a record
\* may yield no expression.
C27_GnomadIds ==
    (mode = "vcf" /\ vcf_pc = "done") =>
        \A r \in Records :
            vcf_lines = <<VcfLine(r)>> =>
                [i \in 1..Len(vcf_yielded) |-> vcf_yielded[i].var]
                    = Expressions(r, compute_for_ref)

\* a record with a plain and a symbolic alternate has yielded one expression
C27_Witness ==
    /\ mode = "vcf"
    /\ vcf_pc = "done"
    /\ ~compute_for_ref
    /\ \E r \in Records :
          /\ vcf_lines = <<VcfLine(r)>>
          /\ r.alts = <<"<DEL>", "G">>
          /\ Len(vcf_yielded) = 1

\* C28: with manifest.limit = L set, _vcf_generator stops after L lines: no
\* expression comes from a line beyond the L-th line of the file, and the
\* recorded line_count is at most L.
C28_LimitStopsAfterLLines ==
    (mode = "vcf" /\ limit # 0) =>
        /\ \A i \in 1..Len(vcf_yielded) : vcf_yielded[i].line_number <= limit
        /\ vcf_pc = "done" => metrics[FileName][LINE_COUNT] <= limit

-----------------------------------------------------------------------------
(* ThreadedTranslator.threaded_translate_from: one translator, one item at *)
(* a time                                                                   *)

\* the dictionary with the fmt and var keys
Parameters == [fmt : {"gnomad"}, var : Exprs]

\* the items of the generator: a bare dictionary, or a tuple of the
\* dictionary, the file path and the line number, the last two optional
Items ==
    {[tuple |-> FALSE, parts |-> <<p>>] : p \in Parameters}
        \cup {[tuple |-> TRUE, parts |-> SubSeq(<<p, FileName, 1>>, 1, n)] :
                 p \in Parameters, n \in 1..3}

\* _ensure_tuple, lines 113-117
ensure_tuple(item) ==
    IF ~item.tuple THEN <<item.parts[1], None, None>> ELSE item.parts

\* a _process_item that records a result whether or not the call raised
process_item_always_result(item) ==
    [parameters |-> item[1],
     file |-> IF Len(item) > 1 THEN item[2] ELSE None,
     line |-> IF Len(item) > 2 THEN item[3] ELSE None,
     result |-> ServiceValue(item[1].var, item[1].fmt)]

\* _process_item, lines 119-141: the dict that is returned; the one
\* translator of line 111 is translator 1
process_item(item) ==
    LET result_dict == [parameters |-> item[1],
                        file |-> IF Len(item) > 1 THEN item[2] ELSE None,
                        line |-> IF Len(item) > 2 THEN item[3] ELSE None]
        var == item[1].var
        fmt == item[1].fmt
    IN IF TranslateRaises(1, var, fmt)
       THEN [error |-> "str(e)", stack_trace |-> "traceback"] @@ result_dict
       ELSE [result |-> TranslateValue(1, var, fmt)] @@ result_dict

\* lines 111 and 144: the translator is made, no item is taken yet
InitThreadedTranslator ==
    /\ mode = "threaded_translate_from"
    /\ input \in UNION {[1..n -> Items] : n \in 0..MaxItems}
    /\ num_threads = 1
    /\ max_errors = 0
    /\ cache_enabled \in BOOLEAN
    /\ rd_pc = "next"
    /\ w_pc = <<>>
    /\ busy = <<>>
    /\ w_item = <<>>
    /\ mon_pc = "none"
    /\ metrics = EmptyDict
    /\ InitCommon

\* lines 146-148: one turn of the loop, the next item is processed and its
\* dict is yielded
ThreadedTranslateNext ==
    /\ mode = "threaded_translate_from"
    /\ rd_pc = "next"
    /\ rd_pos < Len(input)
    /\ rd_pos' = rd_pos + 1
    /\ LET item == ensure_tuple(input[rd_pos'])
       IN /\ results' = Append(results, process_item(item))
          /\ cache' = CacheAfter(1, item[1].var, item[1].fmt)
          /\ svc_calls' = CallsAfter(1, item[1].var, item[1].fmt)
    /\ c' = c + 1
    /\ UNCHANGED <<mode, input, num_threads, max_errors, cache_enabled, rd_pc,
                   rd_item, task_queue, result_queue, w_pc, busy, w_item,
                   mon_pc, scan_i, logged_already, yield_count, current,
                   total_errors, metrics, metrics_file, call_log, kb_vars,
                   cli_vars, col_vars, tr_call, vcf_vars>>

\* lines 150-152: the generator is exhausted
ThreadedTranslateEnd ==
    /\ mode = "threaded_translate_from"
    /\ rd_pc = "next"
    /\ rd_pos = Len(input)
    /\ rd_pc' = "done"
    /\ UNCHANGED <<mode, input, num_threads, max_errors, cache_enabled,
                   rd_pos, rd_item, task_queue, result_queue, w_pc, busy,
                   w_item, mon_pc, c, scan_i, logged_already, yield_count,
                   current, total_errors, metrics, metrics_file, cache,
                   svc_calls, call_log, kb_vars, cli_vars, entry_vars>>

NextThreadedTranslator ==
    \/ ThreadedTranslateNext
    \/ ThreadedTranslateEnd

SpecThreadedTranslator ==
    InitThreadedTranslator /\ [][NextThreadedTranslator]_vars

\* the i-th element of an item as the caller gave it, None when it is absent
Part(item, i) ==
    IF item.tuple /\ Len(item.parts) >= i THEN item.parts[i]
    ELSE IF i = 1 THEN item.parts[1] ELSE None

C30_EmptyInputNeverTerminates ==
    (mode = "threaded" /\ Len(input) = 0) =>
        /\ c = 0
        /\ ~ReaderStarted
        /\ mon_pc = "get"
        /\ ENABLED MonitorTimeout
        /\ ~metrics_file.written

\* the reader thread has ended on the empty input, the workers wait for
\* tasks, a timeout has been logged and the loop polls again
C30_Witness ==
    /\ mode = "threaded"
    /\ input = <<>>
    /\ rd_pc = "done"
    /\ MsgReader \in logged_already
    /\ \A w \in Workers : w_pc[w] = "get"
    /\ mon_pc = "get"

-----------------------------------------------------------------------------
(* Properties of the threads of threaded_translator *)

\* C31: a worker's busy flag is true at every moment the worker holds an
\* item it has dequeued from the task queue and has not yet put on the
\* result queue, so the monitor's 'all workers idle' check never passes
\* while a worker holds an in-flight item.
C31_BusyWhileHolding ==
    [][/\ \A w \in DOMAIN w_pc' : w_item'[w] # NoItem => busy'[w]
       /\ (mon_pc = "scan" /\ mon_pc' = "metrics")
             => \A w \in DOMAIN w_pc : w_item[w] = NoItem]_vars

\* the steps of worker w and of the reader thread
WorkerStep(w) ==
    \/ WorkerGet(w)
    \/ WorkerSetBusy(w)
    \/ WorkerTranslate(w)
    \/ WorkerPut(w)
    \/ WorkerClear(w)

ReaderStep == ReaderNext \/ ReaderPut

\* the consuming loop is over and no thread can take a step any more
AtRest ==
    /\ mon_pc \in {"returned", "raised"}
    /\ ~ENABLED ReaderStep
    /\ \A w \in Workers : ~ENABLED WorkerStep(w)

\* C32: no sentinel is ever placed on the task queue, so a worker that
\* never hits an exception never exits: once the consuming loop is over
\* every such worker is alive and blocked on task_queue.get, and a reader
\* that has not exhausted its input is blocked on a full task queue, for
\* ever.
C32_ThreadsOutliveTheLoop ==
    mode = "threaded" =>
        /\ NoItem \notin task_queue
        /\ \A w \in Workers :
              w_pc[w] = "exited"
                  => \E i \in 1..Len(input) : ServiceRaises(input[i], "gnomad")
        /\ AtRest =>
              /\ \A w \in Workers : w_pc[w] # "exited" => w_pc[w] = "get"
              /\ rd_pc # "done" =>
                    rd_pc = "put" /\ Cardinality(task_queue) = QueueCapacity

-----------------------------------------------------------------------------
(* annotate --scatter when a step of its loop raises *)

\* the statements of the loop body that write a file or start a process
ScatterSteps == {"manifest", "launch"}

\* `vrs_anvil annotate --scatter` run as process ppid, where the loop of
\* annotate_cli (lines 109-121) raises at the k-th file, in the write of the
\* child manifest (lines 116-117) or in run_command_in_background (line
\* 118). The children of the files before it are running; the exception
\* leaves the loop to the except branch (lines 127-129), which prints it:
\* lines 122-125, which write the registry, are not reached.
AnnotateScatterRaises(vcf_files, ppid, pids, k, step) ==
    /\ mode = "cli"
    /\ k \in 1..Len(vcf_files)
    /\ ppid \notin DOMAIN procs
    /\ \A i \in 1..Len(vcf_files) :
          /\ pids[i] \notin DOMAIN procs \cup {ppid}
          /\ \A j \in 1..Len(vcf_files) : pids[i] = pids[j] => i = j
    /\ LET manifest_path(i) == ChildManifestName(now, i - 1)
           written == IF step = "launch" THEN 1..k ELSE 1..(k - 1)
           manifests == {manifest_path(i) : i \in written}
       IN /\ work_dir' =
                [n \in DOMAIN work_dir \cup manifests |->
                    IF n \in manifests
                    THEN ChildManifest(
                             vcf_files[CHOOSE i \in written : manifest_path(i) = n])
                    ELSE work_dir[n]]
          /\ procs' = [p \in DOMAIN procs \cup {ppid}
                                \cup {pids[i] : i \in 1..(k - 1)} |->
                          IF p = ppid THEN Proc("exited", now)
                          ELSE IF p \in DOMAIN procs THEN procs[p]
                          ELSE run_command_in_background]
          /\ report' = [cmd |-> "annotate --scatter", vcf_files |-> vcf_files,
                        timestamp_str |-> Timestamp(now), pid |-> ppid,
                        error |-> step,
                        annotating |-> [i \in 1..(k - 1) |->
                                           [vcf |-> vcf_files[i], pid |-> pids[i]]]]
    /\ state_dir' = state_dir \cup {LogName(now, ppid)}
    /\ exit_code' = 0
    /\ UNCHANGED <<pipeline_vars, kb_vars, entry_vars, now>>

NextScatter ==
    \/ Tick
    \/ \E n \in 0..MaxFiles : \E vcf_files \in [1..n -> VcfFiles] :
          \E ppid \in PidPool, pids \in PidSeqs(n) :
             AnnotateScatter(vcf_files, ppid, pids)
    \/ \E n \in 1..MaxFiles : \E vcf_files \in [1..n -> VcfFiles] :
          \E ppid \in PidPool, pids \in PidSeqs(n) :
             \E k \in 1..n, step \in ScatterSteps :
                AnnotateScatterRaises(vcf_files, ppid, pids, k, step)
    \/ Ps

SpecScatter == InitCli /\ [][NextScatter]_vars

\* C33: every child process launched by annotate --scatter is recorded in a
\* registry file in the work directory that ps can read: if writing a child
\* manifest or launching a child fails for the k-th input file, the k-1
\* children launched before it are still listed in a registry.
C33_LaunchedChildrenAreRegistered ==
    mode = "cli" =>
        \A p \in DOMAIN procs :
           procs[p].state = "launched" =>
              \E n \in RegistryPaths :
                 \E i \in 1..Len(work_dir[n].processes) :
                    work_dir[n].processes[i].pid = p

\* the log files and the metrics files that a process with this pid writes
LogsOf(pid) == {LogName(t, pid) : t \in 0..MaxTime}

MetricsOf(pid) == {MetricsName(t, pid) : t \in 0..MaxTime}

\* C34: for every registry entry, the log file and the metrics file that ps
\* reports were written by the process whose pid equals the entry's pid,
\* never by a process whose pid merely ends in the same digits; and ps
\* reports an entry's metrics file whenever one exists, whether or not a log
\* file for that pid exists.
C34_PsFilesByPid ==
    [][PsRan =>
         \A i \in 1..Len(report'.entries) :
            LET e == report'.entries[i]
            IN /\ e.log_file # "NA" => e.log_file \in LogsOf(e.pid)
               /\ e.metrics_file # "NA" => e.metrics_file \in MetricsOf(e.pid)
               /\ MetricsOf(e.pid) \cap state_dir # {}
                     => e.metrics_file # "NA"]_vars

-----------------------------------------------------------------------------
(* CachingAlleleTranslator instances that differ in their normalize setting *)

\* AlleleTranslator.translate_from of a translator whose normalize attribute
\* is set as given (factory line 86): the allele is normalized or not
ServiceValueWith(var, fmt, normalize) ==
    ServiceValue(var, fmt) \o (IF normalize THEN "/normalized" ELSE "")

InitNormalize ==
    /\ mode = "normalize"
    /\ input = <<>>
    /\ num_threads = 1
    /\ max_errors = 0
    /\ cache_enabled = TRUE
    /\ rd_pc = "none"
    /\ w_pc = <<>>
    /\ busy = <<>>
    /\ w_item = <<>>
    /\ mon_pc = "none"
    /\ metrics = EmptyDict
    /\ InitCommon

\* CachingAlleleTranslator.translate_from(var, fmt), lines 61-74, called on
\* translator t, which the factory has given this normalize setting
TranslateFromWith(t, normalize, var, fmt) ==
    /\ mode = "normalize"
    /\ Len(call_log) < MaxCalls
    /\ LET key == CacheKey(var, fmt)
           hit == key \in DOMAIN Store(t)
           raises == ~hit /\ ServiceRaises(var, fmt)
           val == IF hit THEN Store(t)[key]
                  ELSE ServiceValueWith(var, fmt, normalize)
       IN /\ cache' = IF hit \/ raises THEN cache
                       ELSE (CacheDirectory(t) :> ((key :> val) @@ Store(t)))
                                @@ cache
          /\ call_log' = Append(call_log,
                                [translator |-> t, normalize |-> normalize,
                                 var |-> var, fmt |-> fmt, raised |-> raises,
                                 val |-> IF raises THEN None ELSE val,
                                 service |-> ~hit])
    /\ svc_calls' = CallsAfter(t, var, fmt)
    /\ UNCHANGED <<mode, input, num_threads, max_errors, cache_enabled, rd_pc,
                   rd_pos, rd_item, task_queue, result_queue, w_pc, busy,
                   w_item, mon_pc, c, scan_i, logged_already, yield_count,
                   current, total_errors, metrics, metrics_file, kb_vars,
                   cli_vars, entry_vars>>

NextNormalize ==
    \E t \in Translators, normalize \in BOOLEAN :
       \E var \in PipelineExprs, fmt \in Fmts :
          TranslateFromWith(t, normalize, var, fmt)

SpecNormalize == InitNormalize /\ [][NextNormalize]_vars

\* C35: a cached translation is returned only to a call with the same
\* expression, the same format and the same normalize setting as the call
\* that stored it: two distinct (var, fmt) pairs never map to the same cache
\* key, and a value computed by a translator with normalize=False is never
\* served to a translator with normalize=True that opens the same cache
\* directory.
C35_CacheKeyedByAllInputs ==
    mode = "normalize" =>
        /\ \A v1, v2 \in PipelineExprs, f1, f2 \in Fmts :
              CacheKey(v1, f1) = CacheKey(v2, f2) => v1 = v2 /\ f1 = f2
        /\ \A i \in 1..Len(call_log) :
              LET call == call_log[i]
              IN (~call.service /\ ~call.raised) =>
                    \E j \in 1..(i - 1) :
                       /\ call_log[j].service
                       /\ call_log[j].val = call.val
                       /\ call_log[j].var = call.var
                       /\ call_log[j].fmt = call.fmt
                       /\ call_log[j].normalize = call.normalize

-----------------------------------------------------------------------------
(* Properties of a translation that fails *)

\* C36: a failed translation leaves the cache unchanged: when the
\* underlying service raises for (var, fmt), no entry is written for that
\* key, the exception propagates to the caller, and a repeated call with the
\* same key invokes the underlying service again.
C36_FailureLeavesCache ==
    [][(mode = "cache" /\ Len(call_log') > Len(call_log)) =>
          LET call == call_log'[Len(call_log')]
              key == CacheKey(call.var, call.fmt)
          IN ServiceRaises(call.var, call.fmt) =>
                /\ call.raised
                /\ call.service
                /\ svc_calls'[key] = Get(svc_calls, key, 0) + 1
                /\ cache' = cache
                /\ \A d \in DOMAIN cache' : key \notin DOMAIN cache'[d]]_vars

\* the same failing call has been made twice with the cache enabled, both
\* times the service was invoked and raised, and a successful call has left
\* its entry
C36_Witness ==
    /\ mode = "cache"
    /\ cache_enabled
    /\ cache # EmptyDict
    /\ \E i, j \in 1..Len(call_log) :
          /\ i < j
          /\ call_log[i].raised /\ call_log[i].service
          /\ call_log[j].raised /\ call_log[j].service
          /\ call_log[i].var = call_log[j].var
          /\ call_log[i].fmt = call_log[j].fmt
          /\ call_log[i].translator = call_log[j].translator

-----------------------------------------------------------------------------
(* Properties of the links in the work directory *)

\* the entries that collect_manifest_urls hands to
\* create_symlink_to_work_directory
Linked ==
    {i \in DOMAIN futures :
        futures[i].handler = "create_symlink_to_work_directory"}

\* C37: create_symlink_to_work_directory is idempotent and injective on
\* input files: a call for a file whose link is there returns the same link
\* path without making the link again, and two manifest entries that name
\* different source files resolve to different work-directory paths that
\* each point to their own source.
C37_LinksIdempotentInjective ==
    mode = "collect" =>
        \A i, j \in Linked :
           /\ futures[i].pc # "raised"
           /\ futures[i].src = futures[j].src
                 => futures[i].dest = futures[j].dest
           /\ futures[i].src # futures[j].src
                 => futures[i].dest # futures[j].dest
           /\ futures[i].pc = "returned"
                 => /\ futures[i].dest \in DOMAIN work_dir
                    /\ work_dir[futures[i].dest].kind = "link"
                    /\ work_dir[futures[i].dest].target = futures[i].src

-----------------------------------------------------------------------------
(* A run over several work files: the reader thread drives _vcf_generator, *)
(* the consumer is annotate_all's loop. The queues are kept as sequences,  *)
(* since the items of a file that is read twice are equal.                 *)

\* the paths _work_file_generator may yield
WorkFiles == {"work/a.vcf", "work/b.vcf"}

\* the expressions of the records of a work file, one per line
FileContent(work_file) ==
    IF work_file = "work/a.vcf" THEN <<"1-100-A-G">>
    ELSE <<"1-100-A-G", "1-200-C-T">>

\* seq without its i-th element
Without(seq, i) == SubSeq(seq, 1, i - 1) \o SubSeq(seq, i + 1, Len(seq))

\* annotate_all at its for loop (line 138) with num_threads = 2; the paths
\* in `collected` are what _work_file_generator will yield, an entry that
\* is listed twice is yielded twice
InitFiles ==
    /\ mode = "files"
    /\ input = <<>>
    /\ num_threads = 2
    /\ max_errors = 0
    /\ cache_enabled = FALSE
    /\ rd_pc = "open"
    /\ w_pc = <<>>
    /\ busy = <<>>
    /\ w_item = <<>>
    /\ mon_pc = "get"
    /\ metrics = MetricsStarted(EmptyDict)
    /\ KbIdle
    /\ CliIdle
    /\ VcfIdle
    /\ tr_call = <<>>
    /\ results = <<>>
    /\ manifest_vcf_files = <<>>
    /\ futures = <<>>
    /\ collected \in UNION {[1..n -> WorkFiles] : n \in 0..MaxFiles}
    /\ col_pc = "done"
    /\ rd_pos = 0
    /\ rd_item = NoItem
    /\ task_queue = <<>>
    /\ result_queue = <<>>
    /\ c = 0
    /\ scan_i = 0
    /\ logged_already = {}
    /\ yield_count = <<>>
    /\ current = NoItem
    /\ total_errors = 0
    /\ metrics_file = NoFile
    /\ cache = EmptyDict
    /\ svc_calls = EmptyDict
    /\ call_log = <<>>

\* _vcf_generator lines 55-70, in the reader thread: the next work file is
\* opened and its record is set up; after the last file the generator ends
FilesOpen ==
    /\ mode = "files"
    /\ rd_pc = "open"
    /\ IF rd_pos < Len(collected)
       THEN /\ rd_pos' = rd_pos + 1
            /\ metrics' = MetricsOpened(metrics, collected[rd_pos'])
            /\ rd_pc' = "lines"
       ELSE /\ rd_pc' = "done"
            /\ UNCHANGED <<rd_pos, metrics>>
    /\ vcf_line_number' = 0
    /\ UNCHANGED <<mode, input, num_threads, max_errors, cache_enabled,
                   rd_item, task_queue, result_queue, w_pc, busy, w_item,
                   mon_pc, c, scan_i, logged_already, yield_count, current,
                   total_errors, metrics_file, cache, svc_calls, call_log,
                   kb_vars, cli_vars, col_vars, tr_call, results, vcf_lines,
                   compute_for_ref, limit, vcf_yielded, vcf_pc>>

\* _vcf_generator lines 72-93 and reader_thread lines 119-120: the next line
\* yields an item, which is put on the task queue (the put blocks while the
\* queue is full); after the last line the file's record is finished
FilesLine ==
    /\ mode = "files"
    /\ rd_pc = "lines"
    /\ LET work_file == collected[rd_pos]
           lines == FileContent(work_file)
       IN IF vcf_line_number < Len(lines)
          THEN /\ Len(task_queue) < QueueCapacity
               /\ vcf_line_number' = vcf_line_number + 1
               /\ task_queue' =
                      Append(task_queue,
                             VCFItem("gnomad", lines[vcf_line_number'],
                                     work_file, vcf_line_number', None, None))
               /\ UNCHANGED <<rd_pc, metrics>>
          ELSE /\ metrics' = MetricsFinished(metrics, work_file,
                                             vcf_line_number)
               /\ rd_pc' = "open"
               /\ UNCHANGED <<task_queue, vcf_line_number>>
    /\ UNCHANGED <<mode, input, num_threads, max_errors, cache_enabled,
                   rd_pos, rd_item, result_queue, w_pc, busy, w_item, mon_pc,
                   c, scan_i, logged_already, yield_count, current,
                   total_errors, metrics_file, cache, svc_calls, call_log,
                   kb_vars, cli_vars, col_vars, tr_call, results, vcf_lines,
                   compute_for_ref, limit, vcf_yielded, vcf_pc>>

\* WorkerThread.run lines 27-40, one turn of worker w: an item is taken
\* from the task queue, translated, and put with its result on the result
\* queue (the put blocks while that queue is full). The expressions of the
\* work files all translate.
FilesWork(w) ==
    /\ mode = "files"
    /\ Len(result_queue) < QueueCapacity
    /\ \E i \in 1..Len(task_queue) :
          LET item == task_queue[i]
          IN /\ task_queue' = Without(task_queue, i)
             /\ result_queue' =
                    Append(result_queue,
                           Completed(item, TranslateValue(w, item.var, item.fmt)))
             /\ svc_calls' = CallsAfter(w, item.var, item.fmt)
    /\ UNCHANGED <<mode, input, num_threads, max_errors, cache_enabled, rd_pc,
                   rd_pos, rd_item, w_pc, busy, w_item, mon_pc, c, scan_i,
                   logged_already, yield_count, current, total_errors, metrics,
                   metrics_file, cache, call_log, kb_vars, cli_vars,
                   entry_vars>>

\* threaded_translator lines 130-134 and annotate_all lines 139-169: a
\* result is taken from the result queue and yielded, and the loop body
\* counts it in the record of its file
FilesConsume ==
    /\ mode = "files"
    /\ mon_pc = "get"
    /\ \E i \in 1..Len(result_queue) :
          /\ result_queue' = Without(result_queue, i)
          /\ current' = result_queue[i]
          /\ metrics' = MetricsSuccess(metrics, result_queue[i])
    /\ c' = c + 1
    /\ UNCHANGED <<mode, input, num_threads, max_errors, cache_enabled, rd_pc,
                   rd_pos, rd_item, task_queue, w_pc, busy, w_item, mon_pc,
                   scan_i, logged_already, yield_count, total_errors,
                   metrics_file, cache, svc_calls, call_log, kb_vars, cli_vars,
                   entry_vars>>

NextFiles ==
    \/ FilesOpen
    \/ FilesLine
    \/ \E w \in Workers : FilesWork(w)
    \/ FilesConsume

SpecFiles == InitFiles /\ [][NextFiles]_vars

\* C38: during a run each file's success counter and knowledge-base-hit
\* counter never decrease, for every interleaving of the reader thread,
\* which initialises a file's record when it opens the file, with the
\* consumer, which increments the counters of that record.
C38_CountersNeverDecrease ==
    [][\A k \in Files(metrics) :
          \A counter \in {SUCCESSES, METAKB_HITS} :
             counter \in DOMAIN metrics[k] =>
                metrics'[k][counter] >= metrics[k][counter]]_vars
====
